---- MODULE Spec2Model ----
(***************************************************************************)
(* Verification model of invest-mate: the investment collection kept by    *)
(* App.tsx (CRUD, import merge), the ticket de-duplication loop of the     *)
(* investment form and the monthly ledger report of utils.ts.              *)
(*                                                                         *)
(* Conventions                                                             *)
(*  - an ISO date string "YYYY-MM-DD" is the tuple <<y, m, d>>;            *)
(*  - a month key "YYYY-MM" is the tuple <<y, m>>;                         *)
(*  - a rate is kept in tenths of a percent (12 stands for 1.2 %);         *)
(*  - an id is <<"ext", n>> when it was read from a file and <<"gen", n>>  *)
(*    when generateId() produced it (crypto.randomUUID never repeats);     *)
(*  - the local time zone is east of Greenwich (the application is         *)
(*    localised for Asia/Taipei), so the local calendar day of an ISO date *)
(*    parsed by `new Date(iso)` is the day written in the string.          *)
(***************************************************************************)
EXTENDS Integers, Sequences, FiniteSets, TLC

VARIABLES
    investments,       \* App state: Investment[]
    settings,          \* App state: AppSettings
    isModalOpen,       \* App state: the investment form is shown
    editingItem,       \* App state: Investment | null
    formData,          \* InvestmentForm state
    funders,           \* InvestmentForm state: Funder[]
    importPreviewOpen, \* App state
    importCandidates,  \* App state: Investment[]
    nextId,            \* number of ids generateId() has handed out
    lastOp,            \* history: the handler that ran last
    prevInvestments,   \* history: investments before that handler
    usedCandidates,    \* history: importCandidates consumed by the last confirm
    formOrigin,        \* history: the handler that opened the form last shown
    existingInvestments, \* getUniqueTicket: the form's existingInvestments prop
    formId,            \* getUniqueTicket: formData.id
    baseTicket,        \* getUniqueTicket: argument
    unique,            \* getUniqueTicket: local variable
    suffixCode,        \* getUniqueTicket: local variable
    gutPc,             \* getUniqueTicket: control position
    gutIters,          \* history: loop iterations executed
    reportInput,       \* getMonthlyReport: argument
    report,            \* getMonthlyReport: returned list (Null before the call)
    callArgs,          \* a date utility of utils.ts: the call and its arguments
    callResult         \* its returned value (Null before the call)

appVars == <<investments, settings, isModalOpen, editingItem, formData, funders,
             importPreviewOpen, importCandidates, nextId, lastOp,
             prevInvestments, usedCandidates, formOrigin>>
gutVars == <<existingInvestments, formId, baseTicket, unique, suffixCode, gutPc, gutIters>>
repVars == <<reportInput, report>>
callVars == <<callArgs, callResult>>
vars == <<appVars, gutVars, repVars, callVars>>

-----------------------------------------------------------------------------
(* Bounds of the model *)

MaxInv == 2          \* records in the collection
MaxIncoming == 2     \* records in an imported file
MaxGen == 3          \* ids handed out by generateId
MaxOrder == 3        \* largest order value before appends stop
MaxFunders == 1      \* funders added in the form
MaxLedger == 1       \* investments of the collection the payment grid works on
MaxMonths == 3       \* months added to a date, periods of a schedule

-----------------------------------------------------------------------------
(* Generic helpers *)

RECURSIVE SumSeq(_)
SumSeq(s) == IF s = <<>> THEN 0 ELSE s[1] + SumSeq(Tail(s))

SetMax(S) == CHOOSE x \in S : \A y \in S : y <= x

\* undefined / null is the empty tuple, a present value v is <<v>>
Null == <<>>
Some(v) == <<v>>

SeqsUpTo(S, n) == UNION {[1..k -> S] : k \in 0..n}

-----------------------------------------------------------------------------
(* Calendar: the JavaScript Date operations the program uses *)

IsLeap(y) == (y % 4 = 0 /\ y % 100 # 0) \/ y % 400 = 0

DaysInMonth(y, m) ==
    IF m = 2 THEN (IF IsLeap(y) THEN 29 ELSE 28)
    ELSE IF m \in {4, 6, 9, 11} THEN 30 ELSE 31

\* Date.prototype.setMonth(getMonth() + n): the month is advanced and a day
\* that does not exist in the target month rolls over into the next month.
SetMonthPlus(date, n) ==
    LET idx == (date[1] * 12 + (date[2] - 1)) + n
        ty  == idx \div 12
        tm  == (idx % 12) + 1
        dim == DaysInMonth(ty, tm)
    IN  IF date[3] <= dim THEN <<ty, tm, date[3]>>
        ELSE IF tm = 12 THEN <<ty + 1, 1, date[3] - dim>>
        ELSE <<ty, tm + 1, date[3] - dim>>

calculateEndDate(startDate, months) == SetMonthPlus(startDate, months)

\* calculatePeriodDiff, with the date `new Date()` gives as an argument
calculatePeriodDiff(startDate, now) ==
    LET months == (now[1] - startDate[1]) * 12 - (startDate[2] - 1) + (now[2] - 1)
        currentMonthIdx == months + 1
    IN  IF currentMonthIdx > 0 THEN currentMonthIdx ELSE 1

\* new Date(year, monthIndex, day): a day outside the month is carried into
\* the following or the preceding months
RECURSIVE DateFromParts(_, _, _)
DateFromParts(y, m, d) ==
    IF d < 1
    THEN LET py == IF m = 1 THEN y - 1 ELSE y
             pm == IF m = 1 THEN 12 ELSE m - 1
         IN  DateFromParts(py, pm, d + DaysInMonth(py, pm))
    ELSE IF d > DaysInMonth(y, m)
    THEN DateFromParts(IF m = 12 THEN y + 1 ELSE y, IF m = 12 THEN 1 ELSE m + 1,
                       d - DaysInMonth(y, m))
    ELSE <<y, m, d>>

\* Strings of the date inputs are sequences of character codes
IsDigit(c) == c \in 48..57

\* `${n}` for an integer n
RECURSIVE DecimalDigits(_)
DecimalDigits(n) ==
    IF n < 0 THEN <<45>> \o DecimalDigits(0 - n)
    ELSE IF n < 10 THEN <<48 + n>>
    ELSE DecimalDigits(n \div 10) \o <<48 + (n % 10)>>

\* n.toString().padStart(2, '0')
PadStart2(n) == IF n < 10 THEN <<48>> \o DecimalDigits(n) ELSE DecimalDigits(n)

\* parseInt(str, 10) of a string of digits
RECURSIVE ParseInt(_)
ParseInt(str) ==
    IF str = <<>> THEN 0
    ELSE ParseInt(SubSeq(str, 1, Len(str) - 1)) * 10 + (str[Len(str)] - 48)

isoToROCInput(isoDate) ==
    IF isoDate = Null THEN <<>>
    ELSE DecimalDigits(isoDate[1] - 1911) \o PadStart2(isoDate[2]) \o PadStart2(isoDate[3])

rocInputToISOAnyLength(rocInput) ==
    LET clean == SelectSeq(rocInput, IsDigit)
    IN  IF Len(clean) < 5 THEN Null
        ELSE LET n == Len(clean)
                 year == ParseInt(SubSeq(clean, 1, n - 4)) + 1911
                 month == ParseInt(SubSeq(clean, n - 3, n - 2))
                 day == ParseInt(SubSeq(clean, n - 1, n))
             IN  IF month < 1 \/ month > 12 THEN Null
                 ELSE IF DateFromParts(year, month, day) # <<year, month, day>> THEN Null
                 ELSE Some(<<year, month, day>>)
rocInputToISO(rocInput) ==
    LET clean == SelectSeq(rocInput, IsDigit)
    IN  IF Len(clean) # 6 /\ Len(clean) # 7 THEN Null
        ELSE LET seven == Len(clean) = 7
                 yearStr == IF seven THEN SubSeq(clean, 1, 3) ELSE SubSeq(clean, 1, 2)
                 monthStr == IF seven THEN SubSeq(clean, 4, 5) ELSE SubSeq(clean, 3, 4)
                 dayStr == IF seven THEN SubSeq(clean, 6, 7) ELSE SubSeq(clean, 5, 6)
                 year == ParseInt(yearStr) + 1911
                 month == ParseInt(monthStr)
                 day == ParseInt(dayStr)
             IN  IF month < 1 \/ month > 12 THEN Null
                 ELSE IF DateFromParts(year, month, day) # <<year, month, day>> THEN Null
                 ELSE Some(<<year, month, day>>)

getPeriodDueDate(startDate, periodIndex) == SetMonthPlus(startDate, periodIndex)

\* `${d.getFullYear()}-${(d.getMonth()+1).toString().padStart(2, '0')}`
MonthKey(date) == <<date[1], date[2]>>

\* a.localeCompare(b) < 0 on "YYYY-MM" keys
KeyLess(a, b) == a[1] < b[1] \/ (a[1] = b[1] /\ a[2] < b[2])

\* Math.round(inv.amount * (inv.rate / 100)), rate in tenths of a percent
MonthlyInterest(amount, rate) == (2 * amount * rate + 1000) \div 2000

-----------------------------------------------------------------------------
(* Data of the model: the values user input and imported files range over *)

Today == <<2025, 6, 15>>             \* new Date().toISOString().split('T')[0]

Sources == {"S1", "S2"}
FormSources == {"S1"}                 \* a name typed into the source field
ExtIds == {<<"ext", 1>>, <<"ext", 2>>}
FormDurations == {3}                 \* one of the <option> values 3, 6, 12, 24
FormStartDates == {<<2025, 1, 31>>}  \* a date typed into the start-date field
FormAmounts == {120}                 \* an amount typed into the amount field
FunderAmounts == {100}               \* an amount typed for a funder

NoDate == <<>>
EmptyHistory == <<>>                 \* paymentHistory: {}
PaidRecord(date) == [isPaid |-> TRUE, paidDate |-> date, note |-> ""]

GenId(n) == <<"gen", n>>             \* the n-th value returned by generateId()

Investment(id, source, amount, rate, startDate, duration, endDate, st, ph, fs, o) ==
    [id |-> id, source |-> source, amount |-> amount, rate |-> rate,
     startDate |-> startDate, duration |-> duration, endDate |-> endDate,
     status |-> st, paymentHistory |-> ph, funders |-> fs, order |-> o]

\* Records a JSON file may carry (its ids are chosen by the file)
JsonTemplates ==
    { Investment(<<"ext", 1>>, "S1", 100, 12, <<2025, 3, 15>>, 1,
                 <<2025, 4, 15>>, "Active", EmptyHistory, <<>>, 0),
      Investment(<<"ext", 1>>, "S2", 250, 12, <<2025, 1, 31>>, 2,
                 <<2025, 3, 31>>, "Active", <<PaidRecord(<<2025, 3, 3>>)>>,
                 <<[id |-> <<"ext", 7>>, amount |-> 250]>>, 0) }

JsonCandidates == {[t EXCEPT !.id = i] : t \in JsonTemplates, i \in ExtIds}

-----------------------------------------------------------------------------
(* App.tsx: helpers shared by the handlers *)

Ids(invs) == {invs[i].id : i \in 1..Len(invs)}

\* prev.length > 0 ? Math.max(...prev.map(i => i.order || 0)) : 0
MaxOrderOf(invs) ==
    IF Len(invs) > 0 THEN SetMax({invs[i].order : i \in 1..Len(invs)}) ELSE 0

\* number of generateId() calls made while cloning the first k candidates
RECURSIVE IdsUsedBy(_, _)
IdsUsedBy(cands, k) ==
    IF k = 0 THEN 0
    ELSE IdsUsedBy(cands, k - 1) + 1 + Len(cands[k].funders)

\* item.funders?.map(f => ({ ...f, id: generateId() }))
RenumberFundersKeepingIds(fs, firstGen) == fs

RenumberFunders(fs, firstGen) ==
    [j \in 1..Len(fs) |-> [fs[j] EXCEPT !.id = GenId(firstGen + j - 1)]]

-----------------------------------------------------------------------------
(* App.tsx handleImportFile / handleImportConfirm *)

Idle == ~isModalOpen /\ ~importPreviewOpen

\* a rateColorMap is a set of <<rate, colour class>> pairs
EmptyMapping == {}

DEFAULT_SETTINGS ==
    [savedSources |-> <<>>, savedFunders |-> <<>>, theme |-> "system",
     rateColorMap |-> EmptyMapping]

\* json.settings of an imported backup file
ImportedSettings ==
    [savedSources |-> <<"S1">>, savedFunders |-> <<>>, theme |-> "dark",
     rateColorMap |-> {<<12, "red">>}]

formUnchanged ==
    /\ UNCHANGED <<isModalOpen, editingItem, formData, funders>>
    /\ formOrigin' = "none"
gutUnchanged == UNCHANGED gutVars
repUnchanged == UNCHANGED repVars
callUnchanged == UNCHANGED callVars

\* JSON branch of handleImportFile: candidates are whatever the file holds
ImportJsonFile(cands, withSettings) ==
    /\ Idle
    /\ settings' = IF withSettings THEN ImportedSettings ELSE settings
    /\ IF Len(cands) > 0
       THEN /\ importCandidates' = cands
            /\ importPreviewOpen' = TRUE
       ELSE UNCHANGED <<importCandidates, importPreviewOpen>>
    /\ lastOp' = "view"
    /\ prevInvestments' = investments
    /\ usedCandidates' = <<>>
    /\ UNCHANGED <<investments, nextId>>
    /\ formUnchanged /\ gutUnchanged /\ repUnchanged /\ callUnchanged

\* parseROCDate on a date cell "Y/M/D": a missing cell gives today, a year
\* below 1911 is an era year
parseROCDate(cell) ==
    IF cell = Null THEN Today
    ELSE LET d == cell[1]
         IN  <<IF d[1] < 1911 THEN d[1] + 1911 ELSE d[1], d[2], d[3]>>

\* parseFundersString: one funder per "Name(N萬)" part, N the amount cell
parseFundersString(cells, firstGen) ==
    [j \in 1..Len(cells) |-> [id |-> GenId(firstGen + j - 1), amount |-> cells[j] * 10000]]

\* generateId() calls parseExcelData makes for the first n rows
RECURSIVE IdsUsedByRows(_, _)
IdsUsedByRows(data, n) ==
    IF n = 0 THEN 0
    ELSE IdsUsedByRows(data, n - 1) + Len(data[n].funders)
             + (IF data[n].sysId = Null THEN 1 ELSE 0)

\* Number(cell) || dflt
NumberOr(cell, dflt) == IF cell = 0 THEN dflt ELSE cell

parseExcelData(data, firstGen) ==
    [k \in 1..Len(data) |->
        LET row == data[k]
            g == firstGen + IdsUsedByRows(data, k - 1)
            fs == parseFundersString(row.funders, g)
            amount == NumberOr(row.amount, 0)
            id == IF row.sysId = Null THEN GenId(g + Len(fs)) ELSE row.sysId[1]
        IN  Investment(id, row.source, amount, NumberOr(row.rate, 12),
                       parseROCDate(row.startDate), NumberOr(row.duration, 12),
                       parseROCDate(row.endDate), "Active", EmptyHistory, fs,
                       NumberOr(row.order, 0))]

\* Rows a spreadsheet may carry: every cell is whatever the sheet holds
ExcelRow(sysId, amount, fs, startDate, endDate, duration) ==
    [sysId |-> sysId, source |-> "S1", amount |-> amount, rate |-> 0, funders |-> fs,
     startDate |-> startDate, endDate |-> endDate, duration |-> duration, order |-> 0]

ExcelRows ==
    { ExcelRow(Null, 100000, <<>>, Some(<<114, 3, 15>>), Some(<<114, 4, 15>>), 1),
      ExcelRow(Some(<<"ext", 1>>), 50000, <<5>>, Some(<<114, 1, 31>>), Some(<<114, 3, 31>>), 2),
      ExcelRow(Some(<<"ext", 1>>), 100000, <<5>>, Some(<<114, 1, 15>>), Some(<<114, 2, 15>>), 1),
      ExcelRow(Some(<<"ext", 2>>), 100000, <<>>, Some(<<2025, 1, 15>>), Some(<<114, 9, 15>>), 0) }

\* .xlsx / .csv branch of handleImportFile
ImportExcelFile(data) ==
    /\ Idle
    /\ LET used == IdsUsedByRows(data, Len(data))
           cands == parseExcelData(data, nextId + 1)
       IN  /\ nextId + used <= MaxGen
           /\ nextId' = nextId + used
           /\ IF Len(cands) > 0
              THEN /\ importCandidates' = cands
                   /\ importPreviewOpen' = TRUE
              ELSE UNCHANGED <<importCandidates, importPreviewOpen>>
    /\ lastOp' = "view"
    /\ prevInvestments' = investments
    /\ usedCandidates' = <<>>
    /\ UNCHANGED <<investments, settings>>
    /\ formUnchanged /\ gutUnchanged /\ repUnchanged /\ callUnchanged

\* strategy === 'new'
ImportNewItemsKeepingIds(prev, cands, firstGen) ==
    LET maxOrder == MaxOrderOf(prev)
    IN  [idx \in 1..Len(cands) |->
            [cands[idx] EXCEPT !.order = maxOrder + (idx - 1) + 1]]
ImportNewItems(prev, cands, firstGen) ==
    LET maxOrder == MaxOrderOf(prev)
    IN  [idx \in 1..Len(cands) |->
            LET g == firstGen + IdsUsedBy(cands, idx - 1)
            IN  [cands[idx] EXCEPT
                    !.id = GenId(g),
                    !.funders = RenumberFunders(cands[idx].funders, g + 1),
                    !.order = maxOrder + (idx - 1) + 1]]

\* conflictMap.get(item.id): a Map built from pairs keeps the last pair of a key
ConflictMapGet(conflicts, id) ==
    LET last == SetMax({i \in 1..Len(conflicts) : conflicts[i].id = id})
    IN  conflicts[last]

\* prev.map(item => conflictMap.has(item.id) ? {...conflictMap.get(item.id), order: item.order} : item)
OverwriteConflictsTakingOrder(prev, conflicts) ==
    [k \in 1..Len(prev) |->
        IF prev[k].id \in Ids(conflicts)
        THEN ConflictMapGet(conflicts, prev[k].id)
        ELSE prev[k]]
OverwriteConflicts(prev, conflicts) ==
    [k \in 1..Len(prev) |->
        IF prev[k].id \in Ids(conflicts)
        THEN [ConflictMapGet(conflicts, prev[k].id) EXCEPT !.order = prev[k].order]
        ELSE prev[k]]

\* newItems.map((item, idx) => ({...item, order: currentMaxOrder + idx + 1}))
WithFreshOrderFromLength(result, newItems) ==
    [idx \in 1..Len(newItems) |->
        [newItems[idx] EXCEPT !.order = Len(result) + (idx - 1) + 1]]
WithFreshOrder(result, newItems) ==
    LET currentMaxOrder == MaxOrderOf(result)
    IN  [idx \in 1..Len(newItems) |->
            [newItems[idx] EXCEPT !.order = currentMaxOrder + (idx - 1) + 1]]

ImportMergeAlwaysOverwriting(prev, cands, strategy, firstGen) ==
    IF strategy = "new"
    THEN prev \o ImportNewItems(prev, cands, firstGen)
    ELSE LET existingIds == Ids(prev)
             IsConflict(c) == c.id \in existingIds
             IsNew(c) == c.id \notin existingIds
             conflicts == SelectSeq(cands, IsConflict)
             newItems == SelectSeq(cands, IsNew)
             result == OverwriteConflicts(prev, conflicts)
         IN  result \o WithFreshOrder(result, newItems)
ImportMerge(prev, cands, strategy, firstGen) ==
    IF strategy = "new"
    THEN prev \o ImportNewItems(prev, cands, firstGen)
    ELSE LET existingIds == Ids(prev)
             IsConflict(c) == c.id \in existingIds
             IsNew(c) == c.id \notin existingIds
             conflicts == SelectSeq(cands, IsConflict)
             newItems == SelectSeq(cands, IsNew)
             result == IF strategy = "overwrite"
                       THEN OverwriteConflicts(prev, conflicts)
                       ELSE prev
         IN  result \o WithFreshOrder(result, newItems)

handleImportConfirm(strategy) ==
    /\ importPreviewOpen
    /\ LET used == IF strategy = "new"
                   THEN IdsUsedBy(importCandidates, Len(importCandidates))
                   ELSE 0
           merged == ImportMerge(investments, importCandidates, strategy, nextId + 1)
       IN  /\ nextId + used <= MaxGen
           /\ Len(merged) <= MaxInv
           /\ MaxOrderOf(merged) <= MaxOrder
           /\ investments' = merged
           /\ nextId' = nextId + used
    /\ importPreviewOpen' = FALSE
    /\ importCandidates' = <<>>
    /\ lastOp' = strategy
    /\ prevInvestments' = investments
    /\ usedCandidates' = importCandidates
    /\ UNCHANGED settings
    /\ formUnchanged /\ gutUnchanged /\ repUnchanged /\ callUnchanged

\* ImportPreviewModal onClose
CloseImportPreview ==
    /\ importPreviewOpen
    /\ importPreviewOpen' = FALSE
    /\ importCandidates' = <<>>
    /\ lastOp' = "view"
    /\ prevInvestments' = investments
    /\ usedCandidates' = <<>>
    /\ UNCHANGED <<investments, settings, nextId>>
    /\ formUnchanged /\ gutUnchanged /\ repUnchanged /\ callUnchanged

\* handleDelete, the confirmation answered with OK
handleDelete(id) ==
    /\ Idle
    /\ id \in Ids(investments)
    /\ LET Keep(i) == i.id # id
       IN  investments' = SelectSeq(investments, Keep)
    /\ lastOp' = "delete"
    /\ prevInvestments' = investments
    /\ usedCandidates' = <<>>
    /\ UNCHANGED <<settings, nextId, importPreviewOpen, importCandidates>>
    /\ formUnchanged /\ gutUnchanged /\ repUnchanged /\ callUnchanged

-----------------------------------------------------------------------------
(* InvestmentForm (its state, effects and handleSubmit) and the App handlers
   that open it *)

DefaultAmount == 500000
DefaultRate == 12
DefaultDuration == 6

\* ISO date strings compared with <
DateLess(a, b) ==
    \/ a[1] < b[1]
    \/ (a[1] = b[1] /\ a[2] < b[2])
    \/ (a[1] = b[1] /\ a[2] = b[2] /\ a[3] < b[3])

importUnchanged ==
    /\ UNCHANGED <<importPreviewOpen, importCandidates, settings>>
    /\ usedCandidates' = <<>>

\* effect "Auto Status for Expired (New Entry Only)"
AutoStatus(initialData, fd) ==
    IF initialData = Null /\ fd.duration # 0
    THEN [fd EXCEPT !.status =
             IF DateLess(calculateEndDate(fd.startDate, fd.duration), Today)
             THEN "Returned" ELSE "Active"]
    ELSE fd

\* effect "Update Total Amount when funders change"
FundersTotal(fs, fd) ==
    IF Len(fs) > 0
    THEN [fd EXCEPT !.amount = SumSeq([j \in 1..Len(fs) |-> fs[j].amount])]
    ELSE fd

\* effect "Initialize Data" followed by the effects its state changes trigger
OpenForm(initialData, freshId) ==
    /\ isModalOpen' = TRUE
    /\ editingItem' = initialData
    /\ IF initialData # Null
       THEN /\ formData' = Some(FundersTotal(initialData[1].funders, initialData[1]))
            /\ funders' = initialData[1].funders
       ELSE /\ formData' = Some(AutoStatus(Null,
                  Investment(freshId, "", DefaultAmount, DefaultRate, Today,
                             DefaultDuration, NoDate, "Active", EmptyHistory, <<>>, 0)))
            /\ funders' = <<>>

\* the "add" buttons: setEditingItem(null); setIsModalOpen(true)
OpenNewForm ==
    /\ Idle
    /\ nextId + 1 <= MaxGen
    /\ OpenForm(Null, GenId(nextId + 1))
    /\ formOrigin' = "new"
    /\ nextId' = nextId + 1
    /\ lastOp' = "view"
    /\ prevInvestments' = investments
    /\ UNCHANGED investments
    /\ importUnchanged /\ gutUnchanged /\ repUnchanged /\ callUnchanged

handleEdit(k) ==
    /\ Idle
    /\ k \in 1..Len(investments)
    /\ OpenForm(Some(investments[k]), Null)
    /\ formOrigin' = "edit"
    /\ lastOp' = "view"
    /\ prevInvestments' = investments
    /\ UNCHANGED <<investments, nextId>>
    /\ importUnchanged /\ gutUnchanged /\ repUnchanged /\ callUnchanged

handleCopy(k) ==
    /\ Idle
    /\ k \in 1..Len(investments)
    /\ LET inv == investments[k]
           used == 1 + Len(inv.funders)
           newItem == [inv EXCEPT
                          !.id = GenId(nextId + 1),
                          !.funders = RenumberFunders(inv.funders, nextId + 2),
                          !.order = MaxOrderOf(investments) + 1]
       IN  /\ nextId + used <= MaxGen
           /\ OpenForm(Some(newItem), Null)
           /\ nextId' = nextId + used
    /\ formOrigin' = "copy"
    /\ lastOp' = "view"
    /\ prevInvestments' = investments
    /\ UNCHANGED investments
    /\ importUnchanged /\ gutUnchanged /\ repUnchanged /\ callUnchanged

handleRenew(k) ==
    /\ Idle
    /\ k \in 1..Len(investments)
    /\ LET oldInv == investments[k]
           used == 1 + Len(oldInv.funders)
           newItem == [oldInv EXCEPT
                          !.id = GenId(nextId + 1),
                          !.status = "Active",
                          !.startDate = Today,
                          !.paymentHistory = EmptyHistory,
                          !.funders = RenumberFunders(oldInv.funders, nextId + 2),
                          !.order = MaxOrderOf(investments) + 1]
       IN  /\ nextId + used <= MaxGen
           /\ OpenForm(Some(newItem), Null)
           /\ nextId' = nextId + used
    /\ formOrigin' = "renew"
    /\ lastOp' = "view"
    /\ prevInvestments' = investments
    /\ UNCHANGED investments
    /\ importUnchanged /\ gutUnchanged /\ repUnchanged /\ callUnchanged

formFrame ==
    /\ UNCHANGED <<investments, isModalOpen, editingItem, formOrigin>>
    /\ lastOp' = "view"
    /\ prevInvestments' = investments
    /\ importUnchanged /\ gutUnchanged /\ repUnchanged /\ callUnchanged

\* onChange of the source, amount, duration and start-date inputs
SetSource(s) ==
    /\ isModalOpen
    /\ formData' = Some([formData[1] EXCEPT !.source = s])
    /\ UNCHANGED <<funders, nextId>>
    /\ formFrame

SetAmount(a) ==
    /\ isModalOpen
    /\ Len(funders) = 0                \* readOnly={funders.length > 0}
    /\ formData' = Some([formData[1] EXCEPT !.amount = a])
    /\ UNCHANGED <<funders, nextId>>
    /\ formFrame

SetDuration(n) ==
    /\ isModalOpen
    /\ formData' = Some(AutoStatus(editingItem, [formData[1] EXCEPT !.duration = n]))
    /\ UNCHANGED <<funders, nextId>>
    /\ formFrame

\* handleRocDateChange with an input that rocInputToISO accepts
SetStartDate(iso) ==
    /\ isModalOpen
    /\ formData' = Some(AutoStatus(editingItem, [formData[1] EXCEPT !.startDate = iso]))
    /\ UNCHANGED <<funders, nextId>>
    /\ formFrame

addFunder ==
    /\ isModalOpen
    /\ nextId + 1 <= MaxGen
    /\ Len(funders) < MaxFunders
    /\ funders' = Append(funders, [id |-> GenId(nextId + 1), amount |-> 0])
    /\ formData' = Some(FundersTotal(funders', formData[1]))
    /\ nextId' = nextId + 1
    /\ formFrame

updateFunder(id, value) ==
    /\ isModalOpen
    /\ \E j \in 1..Len(funders) : funders[j].id = id
    /\ funders' = [j \in 1..Len(funders) |->
                      IF funders[j].id = id
                      THEN [funders[j] EXCEPT !.amount = value] ELSE funders[j]]
    /\ formData' = Some(FundersTotal(funders', formData[1]))
    /\ UNCHANGED nextId
    /\ formFrame

removeFunder(id) ==
    /\ isModalOpen
    /\ \E j \in 1..Len(funders) : funders[j].id = id
    /\ LET Keep(f) == f.id # id
       IN  funders' = SelectSeq(funders, Keep)
    /\ formData' = Some(FundersTotal(funders', formData[1]))
    /\ UNCHANGED nextId
    /\ formFrame

\* App.tsx handleAdd
HandleAddResult(prev, editing, inv) ==
    IF editing # Null /\ inv.id \in Ids(prev)
    THEN [k \in 1..Len(prev) |->
             IF prev[k].id = inv.id THEN [inv EXCEPT !.order = prev[k].order]
             ELSE prev[k]]
    ELSE Append(prev, [inv EXCEPT !.order = MaxOrderOf(prev) + 1])

\* handleSubmit: the browser refuses the submit while a required input is empty
handleSubmit ==
    /\ isModalOpen
    /\ formData[1].source # ""
    /\ Len(funders) > 0 \/ formData[1].amount # 0
    /\ LET fd == formData[1]
           finalEndDate == calculateEndDate(fd.startDate,
                              IF fd.duration # 0 THEN fd.duration ELSE DefaultDuration)
           inv == [fd EXCEPT !.endDate = finalEndDate, !.funders = funders]
           result == HandleAddResult(investments, editingItem, inv)
       IN  /\ Len(result) <= MaxInv
           /\ MaxOrderOf(result) <= MaxOrder
           /\ investments' = result
    /\ isModalOpen' = FALSE
    /\ editingItem' = Null
    /\ formData' = Null
    /\ funders' = <<>>
    /\ lastOp' = IF editingItem # Null /\ formData[1].id \in Ids(investments)
                 THEN "submitEdit" ELSE "submitNew"
    /\ prevInvestments' = investments
    /\ UNCHANGED <<nextId, formOrigin>>
    /\ importUnchanged /\ gutUnchanged /\ repUnchanged /\ callUnchanged

\* the form's onClose: setIsModalOpen(false); setEditingItem(null)
CloseForm ==
    /\ isModalOpen
    /\ isModalOpen' = FALSE
    /\ editingItem' = Null
    /\ formData' = Null
    /\ funders' = <<>>
    /\ formOrigin' = "none"
    /\ lastOp' = "view"
    /\ prevInvestments' = investments
    /\ UNCHANGED <<investments, nextId>>
    /\ importUnchanged /\ gutUnchanged /\ repUnchanged /\ callUnchanged

-----------------------------------------------------------------------------
(* Payment records: App.tsx handleUpdatePayment and handleBulkPay.  A payment
   history is a function from the period indices that have a record to the
   records; a record's missing paidDate is NoDate. *)

PayPeriods == {1, 6}                \* periods whose grid cell is clicked

\* what the payment grid passes as `data`
PaymentData ==
    {[isPaid |-> TRUE], [isPaid |-> FALSE], [paidDate |-> <<2025, 5, 5>>], [note |-> "memo"]}

\* { ...currentRecord, ...updates }
MergeRecord(currentRecord, updates) ==
    [f \in DOMAIN currentRecord |->
        IF f \in DOMAIN updates THEN updates[f] ELSE currentRecord[f]]

UpdatedRecordAlwaysStamping(inv, monthIdx, data) ==
    LET currentRecord == IF monthIdx \in DOMAIN inv.paymentHistory
                         THEN inv.paymentHistory[monthIdx]
                         ELSE [isPaid |-> FALSE, paidDate |-> NoDate, note |-> ""]
        updates == IF "isPaid" \in DOMAIN data /\ data.isPaid
                   THEN [f \in DOMAIN data \cup {"paidDate"} |->
                            IF f = "paidDate" THEN Today ELSE data[f]]
                   ELSE data
    IN  MergeRecord(currentRecord, updates)

\* the record handleUpdatePayment stores for period monthIdx
UpdatedRecord(inv, monthIdx, data) ==
    LET currentRecord == IF monthIdx \in DOMAIN inv.paymentHistory
                         THEN inv.paymentHistory[monthIdx]
                         ELSE [isPaid |-> FALSE, paidDate |-> NoDate, note |-> ""]
        stamp == /\ "isPaid" \in DOMAIN data /\ data.isPaid
                 /\ currentRecord.paidDate = NoDate
                 /\ ("paidDate" \notin DOMAIN data \/ data.paidDate = NoDate)
        updates == IF stamp
                   THEN [f \in DOMAIN data \cup {"paidDate"} |->
                            IF f = "paidDate" THEN Today ELSE data[f]]
                   ELSE data
    IN  MergeRecord(currentRecord, updates)

\* { ...history, [monthIdx]: record }
WithRecord(history, monthIdx, record) ==
    [k \in DOMAIN history \cup {monthIdx} |->
        IF k = monthIdx THEN record ELSE history[k]]

\* the payment grid of a row shows the periods 1..(duration || 12)
GridPeriods(inv) == 1..(IF inv.duration # 0 THEN inv.duration ELSE 12)

\* the grid shows the date and note inputs of a period only while it is paid
handleUpdatePayment(id, monthIdx, data) ==
    /\ Idle
    /\ \E k \in 1..Len(investments) :
           /\ investments[k].id = id
           /\ monthIdx \in GridPeriods(investments[k])
           /\ "isPaid" \in DOMAIN data
                  \/ (/\ monthIdx \in DOMAIN investments[k].paymentHistory
                      /\ investments[k].paymentHistory[monthIdx].isPaid)
    /\ investments' =
           [k \in 1..Len(investments) |->
               IF investments[k].id = id
               THEN [investments[k] EXCEPT !.paymentHistory =
                        WithRecord(@, monthIdx, UpdatedRecord(investments[k], monthIdx, data))]
               ELSE investments[k]]
    /\ lastOp' = "payment"
    /\ prevInvestments' = investments
    /\ UNCHANGED nextId
    /\ formUnchanged /\ importUnchanged /\ gutUnchanged /\ repUnchanged /\ callUnchanged

\* d >= targetMonthStart && d <= targetMonthEnd: d and targetMonthStart are
\* UTC midnights (08:00 local), targetMonthEnd is the local midnight that
\* starts the last day of the month
DueInTargetMonth(d, monthStr) ==
    /\ MonthKey(d) = monthStr
    /\ d[3] < DaysInMonth(monthStr[1], monthStr[2])

RECURSIVE BulkPayLoopOverwriting(_, _, _, _)
BulkPayLoopOverwriting(inv, monthStr, updatedHistory, i) ==
    IF i > inv.duration THEN updatedHistory
    ELSE LET d == SetMonthPlus(inv.startDate, i)
             next == IF DueInTargetMonth(d, monthStr)
                     THEN WithRecord(updatedHistory, i,
                              [isPaid |-> TRUE, paidDate |-> Today, note |-> "bulk"])
                     ELSE updatedHistory
         IN  BulkPayLoopOverwriting(inv, monthStr, next, i + 1)

\* the loop of handleBulkPay over the periods i..duration
RECURSIVE BulkPayLoop(_, _, _, _)
BulkPayLoop(inv, monthStr, updatedHistory, i) ==
    IF i > inv.duration THEN updatedHistory
    ELSE LET d == SetMonthPlus(inv.startDate, i)
             pay == /\ DueInTargetMonth(d, monthStr)
                    /\ ~(i \in DOMAIN updatedHistory /\ updatedHistory[i].isPaid)
             next == IF pay
                     THEN WithRecord(updatedHistory, i,
                              [isPaid |-> TRUE, paidDate |-> Today, note |-> "bulk"])
                     ELSE updatedHistory
         IN  BulkPayLoop(inv, monthStr, next, i + 1)

\* the months the monthly overview offers a bulk-pay button for
ReportMonths(invs) ==
    UNION {{MonthKey(invs[k].startDate), MonthKey(invs[k].endDate)}
               \cup {MonthKey(SetMonthPlus(invs[k].startDate, i)) : i \in 1..invs[k].duration} :
           k \in 1..Len(invs)}

\* prev.map(inv => ...) of handleBulkPay
BulkPayResult(prev, monthStr) ==
    [k \in 1..Len(prev) |->
        [prev[k] EXCEPT !.paymentHistory = BulkPayLoop(prev[k], monthStr, @, 1)]]

handleBulkPay(monthStr) ==
    /\ Idle
    /\ monthStr \in ReportMonths(investments)
    /\ investments' = BulkPayResult(investments, monthStr)
    /\ lastOp' = "bulkPay"
    /\ prevInvestments' = investments
    /\ UNCHANGED nextId
    /\ formUnchanged /\ importUnchanged /\ gutUnchanged /\ repUnchanged /\ callUnchanged

-----------------------------------------------------------------------------
(* Row drag-reorder: InvestmentsTable handleDragEnd -> App handleReorder *)

ViewModes == {"active", "history", "all"}

checkIsHistory(inv) ==
    \/ DateLess(inv.endDate, Today)
    \/ inv.status \in {"Returned", "Defaulted"}

\* App.tsx filteredInvestments: the list handed to InvestmentsTable
filteredInvestments(invs, viewMode, selectedSource) ==
    LET IsHist(i) == checkIsHistory(i)
        IsActive(i) == ~checkIsHistory(i)
        displayed == IF viewMode = "history" THEN SelectSeq(invs, IsHist)
                     ELSE IF viewMode = "all" THEN invs
                     ELSE SelectSeq(invs, IsActive)
        OfSource(i) == i.source = selectedSource
    IN  IF selectedSource = "All" THEN displayed ELSE SelectSeq(displayed, OfSource)

\* Sums of amount * rate / 100 are kept in thousandths (the rate is in tenths
\* of a percent), so that the unrounded sum stays an integer.
\* App.tsx stats.totalMonthlyIncome, in thousandths
totalMonthlyIncome(invs) ==
    LET IsActive(i) == ~checkIsHistory(i)
        list == SelectSeq(invs, IsActive)
    IN  SumSeq([k \in 1..Len(list) |->
                   IF list[k].status = "Active" THEN list[k].amount * list[k].rate ELSE 0])

\* the items of a source group of the table: grouped[source]
GroupItems(tableInvestments, source) ==
    LET OfSource(i) == i.source = source
    IN  SelectSeq(tableInvestments, OfSource)

\* SortableGroup totalIncome of a group's items, in thousandths
totalIncome(items) == SumSeq([k \in 1..Len(items) |-> items[k].amount * items[k].rate])

\* formatCurrency of a non-negative number given in thousandths: no fraction
\* digits, halves rounded away from zero
formatCurrency(thousandths) == (thousandths + 500) \div 1000

\* Array.prototype.sort((a, b) => (a.order || 0) - (b.order || 0)), stable
RECURSIVE InsertByOrder(_, _)
InsertByOrder(x, sorted) ==
    IF sorted = <<>> THEN <<x>>
    ELSE IF x.order < sorted[1].order THEN <<x>> \o sorted
    ELSE <<sorted[1]>> \o InsertByOrder(x, Tail(sorted))

RECURSIVE SortByOrder(_)
SortByOrder(s) ==
    IF s = <<>> THEN <<>>
    ELSE InsertByOrder(s[Len(s)], SortByOrder(SubSeq(s, 1, Len(s) - 1)))

\* findIndex(i => i.id === id), 1-based, 0 when absent
FindIndex(s, id) ==
    LET hits == {i \in 1..Len(s) : s[i].id = id}
    IN  IF hits = {} THEN 0 ELSE CHOOSE i \in hits : \A j \in hits : i <= j

\* dnd-kit arrayMove(array, from, to)
arrayMove(s, from, to) ==
    LET without == SubSeq(s, 1, from - 1) \o SubSeq(s, from + 1, Len(s))
    IN  SubSeq(without, 1, to - 1) \o <<s[from]>> \o SubSeq(without, to, Len(without))

\* the list handleDragEnd passes to onReorder, or Null when it does not call it
DragEndResult(list, activeId, overId) ==
    LET FirstAt(src) == CHOOSE i \in 1..Len(list) :
                            /\ list[i].source = src
                            /\ \A j \in 1..Len(list) : list[j].source = src => i <= j
        holding == {list[i].source : i \in {j \in 1..Len(list) : list[j].id = activeId}}
    IN  IF holding = {} THEN Null
        ELSE
        LET sourceGroup == CHOOSE src \in holding :
                               \A o \in holding : FirstAt(src) <= FirstAt(o)
            InGroup(i) == i.source = sourceGroup
            group == SelectSeq(list, InGroup)
        IN  IF overId \notin Ids(group) THEN Null
            ELSE
            LET currentGroupItems == SortByOrder(group)
                oldIndex == FindIndex(currentGroupItems, activeId)
                newIndex == FindIndex(currentGroupItems, overId)
            IN  IF oldIndex = newIndex THEN Null
                ELSE
                LET newGroupOrder == arrayMove(currentGroupItems, oldIndex, newIndex)
                    updatedGroupItems ==
                        [idx \in 1..Len(newGroupOrder) |->
                            [newGroupOrder[idx] EXCEPT !.order = idx - 1]]
                    groupIds == Ids(updatedGroupItems)
                IN  Some([k \in 1..Len(list) |->
                             IF list[k].id \in groupIds
                             THEN updatedGroupItems[FindIndex(updatedGroupItems, list[k].id)]
                             ELSE list[k]])

\* A row is dropped on another row while the table shows the view
\* (viewMode, selectedSource); navigation is free, so the view is an input.
handleDragEnd(viewMode, selectedSource, activeId, overId) ==
    /\ Idle
    /\ LET list == filteredInvestments(investments, viewMode, selectedSource)
           res == DragEndResult(list, activeId, overId)
       IN  /\ activeId \in Ids(list)
           /\ overId \in Ids(list)
           /\ res # Null
           /\ investments' = res[1]               \* handleReorder
    /\ lastOp' = "reorder"
    /\ prevInvestments' = investments
    /\ usedCandidates' = <<>>
    /\ UNCHANGED <<nextId, settings, importPreviewOpen, importCandidates>>
    /\ formUnchanged /\ gutUnchanged /\ repUnchanged /\ callUnchanged

-----------------------------------------------------------------------------
(* InvestmentForm getUniqueTicket (utils.ts 771-782).  A ticket string is the
   sequence of its UTF-16 code units. *)

CodeA == 65           \* let suffixCode = 65; // 'A'
CodeUnits == 68       \* String.fromCharCode wraps at 65536 code units; the
                      \* model wraps at CodeUnits, just above 'A', 'B', 'C'
MaxExisting == 2      \* records of a small existingInvestments collection

\* String.fromCharCode(n): ToUint16(n)
fromCharCode(n) == n % CodeUnits

TicketRecord(id, ticket) == [id |-> id, ticketNumber |-> ticket]

BaseTickets == {<<49>>, <<49, 65>>}                       \* "1", "1A"
PoolTickets == {<<49>>, <<49, 65>>, <<49, 66>>, <<49, 65, 65>>}
PoolIds == {<<"ext", 1>>, <<"ext", 2>>}

\* every candidate the loop can try for base is held by some other record
Saturated(base) ==
    [k \in 1..(CodeUnits + 1) |->
        TicketRecord(<<"ext", k + 10>>,
                     IF k = 1 THEN base ELSE base \o <<k - 2>>)]

\* existingInvestments.some(i => i.ticketNumber === unique && i.id !== formData.id)
TicketTakenFirstOnly(existing, id, u) ==
    Len(existing) > 0 /\ existing[1].ticketNumber = u /\ existing[1].id # id
TicketTaken(existing, id, u) ==
    \E k \in 1..Len(existing) :
        existing[k].ticketNumber = u /\ existing[k].id # id

\* unique = `${baseTicket}${String.fromCharCode(suffixCode)}`
NextCandidateDoubled(base, code) == base \o <<fromCharCode(code + 1)>>
NextCandidate(base, code) == base \o <<fromCharCode(code)>>

\* let unique = baseTicket; let suffixCode = 65;
GutCall ==
    /\ gutPc = "idle"
    /\ unique' = baseTicket
    /\ suffixCode' = CodeA
    /\ gutPc' = "while"
    /\ gutIters' = 0
    /\ UNCHANGED <<existingInvestments, formId, baseTicket>>
    /\ UNCHANGED appVars /\ repUnchanged /\ callUnchanged

\* one iteration of the while body; suffixCode is only ever read through
\* fromCharCode, so it is kept modulo CodeUnits
GutLoop ==
    /\ gutPc = "while"
    /\ TicketTaken(existingInvestments, formId, unique)
    /\ unique' = NextCandidate(baseTicket, suffixCode)
    /\ suffixCode' = (suffixCode + 1) % CodeUnits
    /\ gutIters' = IF gutIters <= CodeUnits THEN gutIters + 1 ELSE gutIters
    /\ UNCHANGED <<existingInvestments, formId, baseTicket, gutPc>>
    /\ UNCHANGED appVars /\ repUnchanged /\ callUnchanged

\* the while condition is false: return unique
GutReturn ==
    /\ gutPc = "while"
    /\ ~TicketTaken(existingInvestments, formId, unique)
    /\ gutPc' = "done"
    /\ UNCHANGED <<existingInvestments, formId, baseTicket, unique, suffixCode, gutIters>>
    /\ UNCHANGED appVars /\ repUnchanged /\ callUnchanged

-----------------------------------------------------------------------------
(* utils.ts getMonthlyReport (320-396) *)

MaxReport == 3        \* investments handed to getMonthlyReport

\* initReportMonth
initReportMonth(key) ==
    [monthStr |-> key, newCapital |-> 0, returnedCapital |-> 0,
     interestExpected |-> 0, interestActual |-> 0,
     interestDetails |-> <<>>, capitalInDetails |-> <<>>, capitalOutDetails |-> <<>>]

\* if(!report[key]) initReportMonth(report, key); the report object is the
\* sequence of its values in insertion order
EnsureMonth(rep, key) ==
    IF \E k \in 1..Len(rep) : rep[k].monthStr = key THEN rep
    ELSE Append(rep, initReportMonth(key))

\* report[key], once initReportMonth has made sure it exists
MonthRow(rep, key) ==
    LET r == EnsureMonth(rep, key)
    IN  r[CHOOSE k \in 1..Len(r) : r[k].monthStr = key]

\* the report after report[key] was made to exist and then updated to row
UpdateMonth(rep, key, row) ==
    LET r == EnsureMonth(rep, key)
    IN  [k \in 1..Len(r) |-> IF r[k].monthStr = key THEN row ELSE r[k]]

\* report[startKey].newCapital += inv.amount; capitalInDetails.push(...)
AddNewCapitalOverwriting(item, inv) ==
    [item EXCEPT !.newCapital = inv.amount,
                 !.capitalInDetails = Append(@, [amount |-> inv.amount, date |-> inv.startDate])]
AddNewCapital(item, inv) ==
    [item EXCEPT !.newCapital = @ + inv.amount,
                 !.capitalInDetails = Append(@, [amount |-> inv.amount, date |-> inv.startDate])]

\* report[endKey].returnedCapital += inv.amount; capitalOutDetails.push(...)
AddReturnedCapitalAsNew(item, inv) ==
    [item EXCEPT !.newCapital = @ + inv.amount,
                 !.capitalOutDetails = Append(@, [amount |-> inv.amount, date |-> inv.endDate])]
AddReturnedCapital(item, inv) ==
    [item EXCEPT !.returnedCapital = @ + inv.amount,
                 !.capitalOutDetails = Append(@, [amount |-> inv.amount, date |-> inv.endDate])]

\* inv.paymentHistory[i]?.isPaid || false
IsPaid(inv, i) == i \in DOMAIN inv.paymentHistory /\ inv.paymentHistory[i].isPaid

\* body of the interest loop for period i, due date d
AddInterestAsIfPaid(item, inv, i, d) ==
    LET monthlyInterest == MonthlyInterest(inv.amount, inv.rate)
        isPaid == IsPaid(inv, i)
    IN  [item EXCEPT
            !.interestExpected = @ + monthlyInterest,
            !.interestActual = @ + monthlyInterest,
            !.interestDetails = Append(@, [invId |-> inv.id, amount |-> monthlyInterest,
                                           period |-> i, dueDate |-> d, isPaid |-> isPaid])]
AddInterestSkippingFirst(item, inv, i, d) ==
    LET monthlyInterest == MonthlyInterest(inv.amount, inv.rate)
        isPaid == IsPaid(inv, i)
    IN  [item EXCEPT
            !.interestExpected = IF i = 1 THEN @ ELSE @ + monthlyInterest,
            !.interestActual = IF isPaid THEN @ + monthlyInterest ELSE @,
            !.interestDetails = Append(@, [invId |-> inv.id, amount |-> monthlyInterest,
                                           period |-> i, dueDate |-> d, isPaid |-> isPaid])]
AddInterest(item, inv, i, d) ==
    LET monthlyInterest == MonthlyInterest(inv.amount, inv.rate)
        isPaid == IsPaid(inv, i)
    IN  [item EXCEPT
            !.interestExpected = @ + monthlyInterest,
            !.interestActual = IF isPaid THEN @ + monthlyInterest ELSE @,
            !.interestDetails = Append(@, [invId |-> inv.id, amount |-> monthlyInterest,
                                           period |-> i, dueDate |-> d, isPaid |-> isPaid])]

\* for(let i = 1; i <= inv.duration; i++) { ... }
RECURSIVE InterestLoop(_, _, _)
InterestLoop(rep, inv, i) ==
    IF i > inv.duration THEN rep
    ELSE LET d == SetMonthPlus(inv.startDate, i)
             key == MonthKey(d)
             row == AddInterest(MonthRow(rep, key), inv, i, d)
         IN  InterestLoop(UpdateMonth(rep, key, row), inv, i + 1)

\* body of investments.forEach
ReportInvestment(rep, inv) ==
    LET startKey == MonthKey(inv.startDate)
        endKey == MonthKey(inv.endDate)
        r1 == UpdateMonth(rep, startKey, AddNewCapital(MonthRow(rep, startKey), inv))
        r2 == UpdateMonth(r1, endKey, AddReturnedCapital(MonthRow(r1, endKey), inv))
    IN  InterestLoop(r2, inv, 1)

RECURSIVE ReportFold(_, _, _)
ReportFold(rep, invs, k) ==
    IF k > Len(invs) THEN rep
    ELSE ReportFold(ReportInvestment(rep, invs[k]), invs, k + 1)

\* Object.values(report).sort((a, b) => a.monthStr.localeCompare(b.monthStr))
RECURSIVE InsertByMonth(_, _)
InsertByMonth(x, sorted) ==
    IF sorted = <<>> THEN <<x>>
    ELSE IF KeyLess(x.monthStr, sorted[1].monthStr) THEN <<x>> \o sorted
    ELSE <<sorted[1]>> \o InsertByMonth(x, Tail(sorted))

RECURSIVE SortByMonth(_)
SortByMonth(s) ==
    IF s = <<>> THEN <<>>
    ELSE InsertByMonth(s[Len(s)], SortByMonth(SubSeq(s, 1, Len(s) - 1)))

getMonthlyReport(invs) == SortByMonth(ReportFold(<<>>, invs, 1))

\* App.tsx stats.totalCollectedInterest: Math.round(amount * (rate / 100))
\* times the number of paid entries of paymentHistory, summed
totalCollectedInterest(invs) ==
    SumSeq([k \in 1..Len(invs) |->
               LET monthly == MonthlyInterest(invs[k].amount, invs[k].rate)
                   paidCount == Cardinality({i \in DOMAIN invs[k].paymentHistory :
                                                 invs[k].paymentHistory[i].isPaid})
               IN  monthly * paidCount])

\* Investments the report is computed for
ReportPool ==
    { Investment(<<"ext", 1>>, "S1", 125, 12, <<2025, 1, 31>>, 2,
                 <<2025, 3, 31>>, "Active", <<PaidRecord(<<2025, 3, 3>>)>>, <<>>, 1),
      Investment(<<"ext", 2>>, "S2", 100, 15, <<2025, 2, 15>>, 1,
                 <<2025, 3, 15>>, "Active", EmptyHistory, <<>>, 2),
      Investment(<<"ext", 3>>, "S1", 500000, 12, <<2024, 12, 15>>, 3,
                 <<2025, 3, 15>>, "Returned",
                 <<PaidRecord(NoDate), [isPaid |-> FALSE, paidDate |-> NoDate, note |-> ""]>>,
                 <<>>, 3),
      Investment(<<"ext", 4>>, "S2", 250, 10, <<2025, 1, 15>>, 0,
                 <<2025, 1, 15>>, "Active", EmptyHistory, <<>>, 4) }

RunReport ==
    /\ report = Null
    /\ report' = Some(getMonthlyReport(reportInput))
    /\ UNCHANGED reportInput
    /\ UNCHANGED appVars /\ gutUnchanged /\ callUnchanged
-----------------------------------------------------------------------------
(* The date utilities of utils.ts, called on arbitrary arguments *)

CalYears == {1915, 1950, 2024, 2025}   \* era years 4, 39, 113 (leap) and 114

\* the valid ISO dates of those years
CalDates ==
    {dt \in CalYears \X (1..12) \X (1..31) : dt[3] <= DaysInMonth(dt[1], dt[2])}

\* what is typed into the start-date field: era digits, month digits and day
\* digits, with or without separators
RocEraStrings == {<<>>, <<57>>, <<51, 57>>, <<49, 49, 51>>, <<49, 49, 52>>, <<49, 49, 52, 48>>}
RocMonthStrings == {<<48, 48>>, <<48, 50>>, <<49, 50>>, <<49, 51>>, <<55>>}
RocDayStrings == {<<48, 48>>, <<48, 49>>, <<50, 57>>, <<51, 48>>, <<51, 49>>, <<51, 50>>}
RocSeparators == {<<>>, <<47>>}
RocInputs ==
    {e \o sep \o m \o sep \o d :
        e \in RocEraStrings, m \in RocMonthStrings, d \in RocDayStrings, sep \in RocSeparators}

\* the days the clock shows when calculatePeriodDiff is called
ClockDates == {<<2024, 3, 1>>, <<2025, 2, 1>>, <<2025, 6, 15>>}

CalendarCalls ==
    {[fn |-> "calculateEndDate", startDate |-> d, months |-> n] :
        d \in CalDates, n \in 0..MaxMonths}
    \cup {[fn |-> "getPeriodDueDate", startDate |-> d, duration |-> n] :
        d \in CalDates, n \in 1..MaxMonths}
    \cup {[fn |-> "isoToROCInput", isoDate |-> d] : d \in CalDates}
    \cup {[fn |-> "rocInputToISO", rocInput |-> r] : r \in RocInputs}
    \cup {[fn |-> "calculatePeriodDiff", startDate |-> d, now |-> t] :
        d \in CalDates, t \in ClockDates}

callFrame == UNCHANGED callArgs /\ UNCHANGED appVars /\ gutUnchanged /\ repUnchanged

CallCalculateEndDate ==
    /\ callResult = Null /\ callArgs.fn = "calculateEndDate"
    /\ callResult' = Some(calculateEndDate(callArgs.startDate, callArgs.months))
    /\ callFrame

\* the due dates of the periods 1..duration, as the payment grid lists them
CallDueDates ==
    /\ callResult = Null /\ callArgs.fn = "getPeriodDueDate"
    /\ callResult' = Some([i \in 1..callArgs.duration |->
                              getPeriodDueDate(callArgs.startDate, i)])
    /\ callFrame

CallIsoToROCInput ==
    /\ callResult = Null /\ callArgs.fn = "isoToROCInput"
    /\ callResult' = Some(isoToROCInput(callArgs.isoDate))
    /\ callFrame

\* the result is wrapped once more: Some(Null) is a returned null
CallRocInputToISO ==
    /\ callResult = Null /\ callArgs.fn = "rocInputToISO"
    /\ callResult' = Some(rocInputToISO(callArgs.rocInput))
    /\ callFrame

CallCalculatePeriodDiff ==
    /\ callResult = Null /\ callArgs.fn = "calculatePeriodDiff"
    /\ callResult' = Some(calculatePeriodDiff(callArgs.startDate, callArgs.now))
    /\ callFrame

-----------------------------------------------------------------------------
(* App.tsx load effect: the snapshots kept in localStorage *)

MaxStored == 2        \* elements of a stored array

\* what JSON.parse makes of a stored `order`: absent, null, a string, a number
StoredOrders == {<<"absent">>, <<"null">>, <<"string", 1>>, <<"number", 0>>, <<"number", 2>>}

\* elements of a stored array: null, or an object with the fields of a record
\* and the order as stored
StoredItems ==
    {[type |-> "null"]} \cup
    {[type |-> "object", fields |-> inv, order |-> o] :
         inv \in {Investment(<<"ext", n>>, "S1", 100, 12, <<2025, 1, 31>>, 3,
                             <<2025, 5, 1>>, "Active", EmptyHistory, <<>>, 0) : n \in 1..2},
         o \in StoredOrders}

\* localStorage.getItem('investments_data'): no entry, text that JSON.parse
\* rejects, or text that parses to null, to an object or to an array
StoredInvestments ==
    {Null, Some([parse |-> "error"]),
     Some([parse |-> "ok", value |-> [type |-> "null"]]),
     Some([parse |-> "ok", value |-> [type |-> "object"]])}
    \cup {Some([parse |-> "ok", value |-> [type |-> "array", items |-> items]]) :
              items \in SeqsUpTo(StoredItems, MaxStored)}

\* localStorage.getItem('investments_settings')
StoredRateColorMaps == {<<"absent">>, <<"null">>, <<"map", {<<12, "red">>}>>}
StoredSettings ==
    {Null, Some([parse |-> "error"]),
     Some([parse |-> "ok", value |-> [type |-> "null"]])}
    \cup {Some([parse |-> "ok",
                value |-> [type |-> "object", theme |-> theme, rateColorMap |-> rcm]]) :
              theme \in {Null, Some("dark")}, rcm \in StoredRateColorMaps}

\* { ...item, order: typeof item.order === 'number' ? item.order : idx }
\* (idx counts from 0); reading item.order of null throws
ItemThrows(item) == item.type = "null"
WithOrderAlwaysIndex(item, idx) ==
    [item.fields EXCEPT !.order = idx]
WithOrder(item, idx) ==
    [item.fields EXCEPT !.order = IF item.order[1] = "number" THEN item.order[2] ELSE idx]

\* the try block of the investments snapshot and its catch
LoadedInvestments(stored) ==
    LET threw == \/ stored.parse = "error"
                 \/ /\ stored.value.type = "array"
                    /\ \E k \in 1..Len(stored.value.items) : ItemThrows(stored.value.items[k])
    IN  IF threw THEN <<>>
        ELSE IF stored.value.type = "array"
        THEN [k \in 1..Len(stored.value.items) |-> WithOrder(stored.value.items[k], k - 1)]
        ELSE <<>>

\* parsed.rateColorMap || {}
RateColorMapOrEmpty(rcm) ==
    IF rcm[1] = "map" THEN rcm[2] ELSE EmptyMapping

\* the try block of the settings snapshot and its catch:
\* { ...DEFAULT_SETTINGS, ...parsed, rateColorMap: parsed.rateColorMap || {} }
LoadedSettings(stored) ==
    LET threw == stored.parse = "error" \/ stored.value.type = "null"
    IN  IF threw THEN DEFAULT_SETTINGS
        ELSE [DEFAULT_SETTINGS EXCEPT
                 !.theme = IF stored.value.theme # Null THEN stored.value.theme[1] ELSE @,
                 !.rateColorMap = RateColorMapOrEmpty(stored.value.rateColorMap)]

LoadCalls ==
    {[fn |-> "load", storedInv |-> si, storedSettings |-> ss] :
         si \in StoredInvestments, ss \in StoredSettings}

\* useEffect(() => { ... }, []) that loads the initial data
LoadInitialData ==
    /\ callResult = Null /\ callArgs.fn = "load"
    /\ investments' = IF callArgs.storedInv # Null
                      THEN LoadedInvestments(callArgs.storedInv[1])
                      ELSE investments
    /\ settings' = IF callArgs.storedSettings # Null
                   THEN LoadedSettings(callArgs.storedSettings[1])
                   ELSE settings
    /\ callResult' = Some("loaded")
    /\ lastOp' = "load"
    /\ prevInvestments' = investments
    /\ usedCandidates' = <<>>
    /\ UNCHANGED <<callArgs, nextId, importPreviewOpen, importCandidates>>
    /\ formUnchanged /\ gutUnchanged /\ repUnchanged

-----------------------------------------------------------------------------
(* Specifications *)

InitApp ==
    /\ investments = <<>>
    /\ settings = DEFAULT_SETTINGS
    /\ isModalOpen = FALSE
    /\ editingItem = Null
    /\ formData = Null
    /\ funders = <<>>
    /\ importPreviewOpen = FALSE
    /\ importCandidates = <<>>
    /\ nextId = 0
    /\ lastOp = "init"
    /\ prevInvestments = <<>>
    /\ usedCandidates = <<>>
    /\ formOrigin = "none"

InitGutIdle ==
    /\ existingInvestments = <<>>
    /\ formId = <<"ext", 1>>
    /\ baseTicket = <<>>
    /\ unique = <<>>
    /\ suffixCode = CodeA
    /\ gutPc = "off"
    /\ gutIters = 0

InitRepIdle ==
    /\ reportInput = <<>>
    /\ report = Some(<<>>)

\* The application: the collection and the handlers that change it
InitCallIdle ==
    /\ callArgs = Null
    /\ callResult = Null

Init == InitApp /\ InitGutIdle /\ InitRepIdle /\ InitCallIdle

Next ==
    \/ \E cands \in SeqsUpTo(JsonCandidates, MaxIncoming), withSettings \in BOOLEAN :
           ImportJsonFile(cands, withSettings)
    \/ \E strategy \in {"skip", "overwrite", "new"} : handleImportConfirm(strategy)
    \/ CloseImportPreview
    \/ \E id \in Ids(investments) : handleDelete(id)
    \/ OpenNewForm
    \/ \E k \in 1..Len(investments) : handleEdit(k)
    \/ \E k \in 1..Len(investments) : handleCopy(k)
    \/ \E k \in 1..Len(investments) : handleRenew(k)
    \/ \E s \in FormSources : SetSource(s)
    \/ handleSubmit
    \/ CloseForm
    \/ \E viewMode \in ViewModes, selectedSource \in {"All"} \cup Sources,
          activeId \in Ids(investments), overId \in Ids(investments) :
           handleDragEnd(viewMode, selectedSource, activeId, overId)

Spec == Init /\ [][Next]_vars

\* The investment form with all its inputs, on a collection filled by the form
NextForm ==
    \/ OpenNewForm
    \/ \E k \in 1..Len(investments) : handleEdit(k)
    \/ \E k \in 1..Len(investments) : handleCopy(k)
    \/ \E k \in 1..Len(investments) : handleRenew(k)
    \/ \E s \in FormSources : SetSource(s)
    \/ \E a \in FormAmounts : SetAmount(a)
    \/ \E n \in FormDurations : SetDuration(n)
    \/ \E iso \in FormStartDates : SetStartDate(iso)
    \/ addFunder
    \/ \E j \in 1..Len(funders), a \in FunderAmounts : updateFunder(funders[j].id, a)
    \/ \E j \in 1..Len(funders) : removeFunder(funders[j].id)
    \/ handleSubmit
    \/ CloseForm
    \/ \E id \in Ids(investments) : handleDelete(id)

SpecForm == Init /\ [][NextForm]_vars

\* The payment grid, bulk pay and the form on a collection filled by the form
LedgerMonths == {<<2025, 7>>, <<2025, 9>>}

NextLedger ==
    \/ Len(investments) < MaxLedger /\ OpenNewForm
    \/ \E k \in 1..Len(investments) : handleEdit(k)
    \/ \E s \in FormSources : SetSource(s)
    \/ \E n \in FormDurations : SetDuration(n)
    \/ handleSubmit
    \/ CloseForm
    \/ \E id \in Ids(investments), monthIdx \in PayPeriods, data \in PaymentData :
           handleUpdatePayment(id, monthIdx, data)
    \/ \E monthStr \in LedgerMonths : handleBulkPay(monthStr)

SpecLedger == Init /\ [][NextLedger]_vars

\* Payments on a collection of two records that the form produced: one that
\* started on 2025-01-31 for three months (periods due on 03-03, 03-31 and
\* 05-01) and one that started today for the default six months
LedgerBook ==
    << Investment(GenId(1), "S1", DefaultAmount, DefaultRate, <<2025, 1, 31>>, 3,
                  calculateEndDate(<<2025, 1, 31>>, 3), "Returned", EmptyHistory, <<>>, 1),
       Investment(GenId(2), "S1", DefaultAmount, DefaultRate, Today, DefaultDuration,
                  calculateEndDate(Today, DefaultDuration), "Active", EmptyHistory, <<>>, 2) >>

LedgerBookLoaded ==
    /\ investments = LedgerBook
    /\ settings = DEFAULT_SETTINGS
    /\ isModalOpen = FALSE
    /\ editingItem = Null
    /\ formData = Null
    /\ funders = <<>>
    /\ importPreviewOpen = FALSE
    /\ importCandidates = <<>>
    /\ nextId = 2
    /\ lastOp = "view"
    /\ prevInvestments = LedgerBook
    /\ usedCandidates = <<>>
    /\ formOrigin = "none"

InitPayments == LedgerBookLoaded /\ InitGutIdle /\ InitRepIdle /\ InitCallIdle

BookPeriods == {1}
BookMonths == {<<2025, 3>>, <<2025, 5>>, <<2025, 7>>}

NextPayments ==
    \/ \E id \in Ids(investments), monthIdx \in BookPeriods, data \in PaymentData :
           handleUpdatePayment(id, monthIdx, data)
    \/ \E monthStr \in BookMonths : handleBulkPay(monthStr)

SpecPayments == InitPayments /\ [][NextPayments]_vars

\* The date utilities called on arbitrary arguments
InitCalendar ==
    /\ InitApp /\ InitGutIdle /\ InitRepIdle
    /\ callArgs \in CalendarCalls
    /\ callResult = Null

NextCalendar ==
    \/ CallCalculateEndDate
    \/ CallDueDates
    \/ CallIsoToROCInput
    \/ CallRocInputToISO
    \/ CallCalculatePeriodDiff

SpecCalendar == InitCalendar /\ [][NextCalendar]_vars

\* Start of the application with snapshots in localStorage
InitLoad ==
    /\ InitApp /\ InitGutIdle /\ InitRepIdle
    /\ callArgs \in LoadCalls
    /\ callResult = Null

NextLoad == LoadInitialData

SpecLoad == InitLoad /\ [][NextLoad]_vars

\* Row drags on collections of up to MaxShelf records saved from the form:
\* the k-th record saved has id GenId(k) and order k
MaxShelf == 3

ShelfShapes ==
    {[source |-> src, startDate |-> sd] :
         src \in Sources, sd \in {<<2025, 1, 31>>, Today}}

ShelfRecord(shape, k) ==
    LET endDate == calculateEndDate(shape.startDate, 3)
    IN  Investment(GenId(k), shape.source, DefaultAmount, DefaultRate, shape.startDate, 3,
                   endDate, IF DateLess(endDate, Today) THEN "Returned" ELSE "Active",
                   EmptyHistory, <<>>, k)

Shelves ==
    {[k \in 1..Len(shapes) |-> ShelfRecord(shapes[k], k)] :
         shapes \in SeqsUpTo(ShelfShapes, MaxShelf)}

InitReorder ==
    /\ investments \in Shelves
    /\ prevInvestments = investments
    /\ nextId = Len(investments)
    /\ settings = DEFAULT_SETTINGS
    /\ isModalOpen = FALSE
    /\ editingItem = Null
    /\ formData = Null
    /\ funders = <<>>
    /\ importPreviewOpen = FALSE
    /\ importCandidates = <<>>
    /\ lastOp = "view"
    /\ usedCandidates = <<>>
    /\ formOrigin = "none"
    /\ InitGutIdle /\ InitRepIdle /\ InitCallIdle

NextReorder ==
    \E viewMode \in ViewModes, selectedSource \in {"All"} \cup Sources,
       activeId \in Ids(investments), overId \in Ids(investments) :
        handleDragEnd(viewMode, selectedSource, activeId, overId)

SpecReorder == InitReorder /\ [][NextReorder]_vars

\* Import of spreadsheets into a collection
NextTabular ==
    \/ \E data \in SeqsUpTo(ExcelRows, MaxIncoming) : ImportExcelFile(data)
    \/ \E strategy \in {"skip", "overwrite", "new"} : handleImportConfirm(strategy)
    \/ CloseImportPreview
    \/ \E id \in Ids(investments) : handleDelete(id)

SpecTabular == Init /\ [][NextTabular]_vars

\* getUniqueTicket called by the form's ticket effect on arbitrary arguments
InitTicket ==
    /\ InitApp /\ InitRepIdle /\ InitCallIdle
    /\ baseTicket \in BaseTickets
    /\ formId \in PoolIds \cup {<<"gen", 1>>}
    /\ existingInvestments \in
           SeqsUpTo({TicketRecord(i, t) : i \in PoolIds, t \in PoolTickets}, MaxExisting)
           \cup {Saturated(baseTicket)}
    /\ unique = <<>>
    /\ suffixCode = CodeA
    /\ gutPc = "idle"
    /\ gutIters = 0

NextTicket == GutCall \/ GutLoop \/ GutReturn

SpecTicket == InitTicket /\ [][NextTicket]_vars

\* the loop is straight-line code: once called it keeps running
FairSpecTicket == SpecTicket /\ WF_vars(NextTicket)

\* getMonthlyReport called on arbitrary collections
InitReport ==
    /\ InitApp /\ InitGutIdle /\ InitCallIdle
    /\ reportInput \in SeqsUpTo(ReportPool, MaxReport)
    /\ report = Null

NextReport == RunReport

SpecReport == InitReport /\ [][NextReport]_vars

-----------------------------------------------------------------------------
(* Properties of the import merge (checked under Spec) *)

Strategies == {"skip", "overwrite", "new"}

\* positions of the incoming records whose id no existing record has
NonConflicting(existing, incoming) ==
    {i \in 1..Len(incoming) : \A k \in 1..Len(existing) : existing[k].id # incoming[i].id}

Conflicting(existing, incoming) ==
    (1..Len(incoming)) \ NonConflicting(existing, incoming)

\* a record without its sort-order value
Content(inv) == [inv EXCEPT !.order = 0]

Appended == SubSeq(investments, Len(prevInvestments) + 1, Len(investments))

\* C1: after an import with strategy skip the collection has
\* |existing| + |incoming records whose id is not in existing| records and the
\* existing records are all still there, unchanged and in the same order.
C1_SkipKeepsExisting ==
    lastOp = "skip" =>
        /\ Len(investments) = Len(prevInvestments)
               + Cardinality(NonConflicting(prevInvestments, usedCandidates))
        /\ SubSeq(investments, 1, Len(prevInvestments)) = prevInvestments

C1_Witness ==
    /\ lastOp = "skip"
    /\ prevInvestments # <<>>
    /\ NonConflicting(prevInvestments, usedCandidates) # {}
    /\ \E i \in Conflicting(prevInvestments, usedCandidates) :
           \E k \in 1..Len(prevInvestments) :
               /\ prevInvestments[k].id = usedCandidates[i].id
               /\ Content(prevInvestments[k]) # Content(usedCandidates[i])

\* ids held by a collection: those of its records and of their funders
FunderIds(invs) ==
    UNION {{invs[k].funders[j].id : j \in 1..Len(invs[k].funders)} : k \in 1..Len(invs)}

\* C2: after an import with strategy clone ('new') the collection has
\* |existing| + |incoming| records, no existing record is modified, and every
\* appended record and each of its funders carries an id that generateId
\* produced during this import and that the existing collection did not hold.
C2_CloneAppendsFreshIds ==
    lastOp = "new" =>
        LET firstNew == nextId - IdsUsedBy(usedCandidates, Len(usedCandidates)) + 1
            IsFresh(id) == /\ id[1] = "gen"
                           /\ id[2] >= firstNew
                           /\ id \notin Ids(prevInvestments)
                           /\ id \notin FunderIds(prevInvestments)
        IN  /\ Len(investments) = Len(prevInvestments) + Len(usedCandidates)
            /\ SubSeq(investments, 1, Len(prevInvestments)) = prevInvestments
            /\ \A k \in 1..Len(Appended) :
                   /\ IsFresh(Appended[k].id)
                   /\ \A j \in 1..Len(Appended[k].funders) :
                          IsFresh(Appended[k].funders[j].id)
            /\ Cardinality(Ids(Appended) \cup FunderIds(Appended))
                   = IdsUsedBy(usedCandidates, Len(usedCandidates))

C2_Witness ==
    /\ lastOp = "new"
    /\ Conflicting(prevInvestments, usedCandidates) # {}
    /\ \E i \in 1..Len(usedCandidates) : usedCandidates[i].funders # <<>>

\* C3 as stated: after an import with strategy overwrite every existing
\* record whose id equals an incoming record's id has that incoming record's
\* content and its own previous order and position; the other existing
\* records are unchanged; the incoming records without a conflict are appended.
C3_OverwriteEveryConflict ==
    lastOp = "overwrite" =>
        /\ \A k \in 1..Len(prevInvestments) : \A i \in 1..Len(usedCandidates) :
               prevInvestments[k].id = usedCandidates[i].id =>
                   investments[k] = [usedCandidates[i] EXCEPT !.order = prevInvestments[k].order]
        /\ \A k \in 1..Len(prevInvestments) :
               prevInvestments[k].id \notin Ids(usedCandidates) =>
                   investments[k] = prevInvestments[k]
        /\ Len(Appended) = Cardinality(NonConflicting(prevInvestments, usedCandidates))

\* the last incoming record carrying the id
LastIncomingWithId(incoming, id) ==
    incoming[CHOOSE i \in 1..Len(incoming) :
                 /\ incoming[i].id = id
                 /\ \A j \in 1..Len(incoming) : incoming[j].id = id => j <= i]

\* the incoming records without a conflict, in file order
RECURSIVE NewInFileOrder(_, _, _)
NewInFileOrder(existing, incoming, i) ==
    IF i > Len(incoming) THEN <<>>
    ELSE (IF i \in NonConflicting(existing, incoming) THEN <<Content(incoming[i])>> ELSE <<>>)
         \o NewInFileOrder(existing, incoming, i + 1)

\* C3 amended: as C3, where an id that several incoming records carry takes
\* the content of the last of them.
C3_OverwriteLastConflict ==
    lastOp = "overwrite" =>
        /\ Len(investments) >= Len(prevInvestments)
        /\ \A k \in 1..Len(prevInvestments) :
               investments[k] =
                   IF prevInvestments[k].id \in Ids(usedCandidates)
                   THEN [LastIncomingWithId(usedCandidates, prevInvestments[k].id)
                            EXCEPT !.order = prevInvestments[k].order]
                   ELSE prevInvestments[k]
        /\ [k \in 1..Len(Appended) |-> Content(Appended[k])]
               = NewInFileOrder(prevInvestments, usedCandidates, 1)

C3_Witness ==
    /\ lastOp = "overwrite"
    /\ Len(Appended) > 0
    /\ \E k \in 1..Len(prevInvestments) :
           /\ prevInvestments[k].id \in Ids(usedCandidates)
           /\ Content(investments[k]) # Content(prevInvestments[k])
           /\ investments[k].order = prevInvestments[k].order
           /\ investments[k].order # 0

\* C4: for every import strategy the appended records get the order values
\* max(existing orders) + 1 + position: strictly increasing and strictly above
\* every order value the collection already holds.
C4_AppendedOrdersFresh ==
    lastOp \in Strategies =>
        LET n == Len(prevInvestments)
            kept == SubSeq(investments, 1, n)
            top == IF n = 0 THEN 0
                   ELSE CHOOSE o \in {kept[k].order : k \in 1..n} :
                            \A k \in 1..n : kept[k].order <= o
        IN  /\ Len(investments) >= n
            /\ \A j \in 1..Len(Appended) :
                   /\ Appended[j].order = top + 1 + (j - 1)
                   /\ \A k \in 1..n : kept[k].order < Appended[j].order
                   /\ \A i \in 1..(j - 1) : Appended[i].order < Appended[j].order

\* an append onto a collection whose largest order exceeds its length
C4_Witness ==
    /\ lastOp \in Strategies
    /\ Len(prevInvestments) > 0
    /\ Len(Appended) > 0
    /\ \E k \in 1..Len(prevInvestments) : prevInvestments[k].order > Len(prevInvestments)

\* C5: no two records of the collection have the same id.
C5_IdsUnique ==
    \A i \in 1..Len(investments) : \A j \in 1..Len(investments) :
        i # j => investments[i].id # investments[j].id

-----------------------------------------------------------------------------
(* Properties of getUniqueTicket (checked under SpecTicket / FairSpecTicket) *)

\* tickets of the records that are not the record being edited
OtherTickets ==
    {existingInvestments[k].ticketNumber :
        k \in {i \in 1..Len(existingInvestments) : existingInvestments[i].id # formId}}

\* C6: the ticket getUniqueTicket returns is the ticketNumber of no record of
\* existingInvestments other than the record being edited.
C6_ReturnedTicketIsFree ==
    gutPc = "done" => unique \notin OtherTickets

\* the loop rejected two candidates before it returned
C6_Witness ==
    /\ gutPc = "done"
    /\ gutIters >= 2
    /\ baseTicket \in OtherTickets
    /\ unique # baseTicket

\* C7: every call of getUniqueTicket returns.
C7_Terminates == <>(gutPc = "done")

\* the suffixes in the order A, B, C, ... in which the loop tries them
SuffixAt(k) == (CodeA + k) % CodeUnits

\* C8: getUniqueTicket returns base when no other record has it, and
\* otherwise base followed by the first suffix in the order A, B, C, ... that
\* makes a ticket no other record has.
C8_FirstFreeSuffix ==
    gutPc = "done" =>
        IF baseTicket \notin OtherTickets THEN unique = baseTicket
        ELSE \E k \in 0..(CodeUnits - 1) :
                /\ unique = baseTicket \o <<SuffixAt(k)>>
                /\ unique \notin OtherTickets
                /\ \A j \in 0..(k - 1) : (baseTicket \o <<SuffixAt(j)>>) \in OtherTickets

\* exactly one other record holds base: the result is base + "A"
C8_Witness ==
    /\ gutPc = "done"
    /\ Cardinality({k \in 1..Len(existingInvestments) :
                       /\ existingInvestments[k].ticketNumber = baseTicket
                       /\ existingInvestments[k].id # formId}) = 1
    /\ unique = baseTicket \o <<CodeA>>

-----------------------------------------------------------------------------
(* Properties of getMonthlyReport (checked under SpecReport) *)

\* C9: the interestExpected of all report months add up to the sum over the
\* investments of round(amount * rate / 100) * duration.
C9_ExpectedInterestTotal ==
    report # Null =>
        SumSeq([k \in 1..Len(report[1]) |-> report[1][k].interestExpected])
          = SumSeq([k \in 1..Len(reportInput) |->
                       MonthlyInterest(reportInput[k].amount, reportInput[k].rate)
                           * reportInput[k].duration])

\* two investments pay interest in the same month, one of them an amount
\* that Math.round rounds up
C9_Witness ==
    /\ report # Null
    /\ \E m \in 1..Len(report[1]) :
           \E a, b \in 1..Len(report[1][m].interestDetails) :
               /\ report[1][m].interestDetails[a].invId # report[1][m].interestDetails[b].invId
               /\ \E k \in 1..Len(reportInput) :
                      /\ reportInput[k].id = report[1][m].interestDetails[a].invId
                      /\ 1000 * report[1][m].interestDetails[a].amount
                             > reportInput[k].amount * reportInput[k].rate

\* the totals of a report, month by month
Totals(rep) ==
    [k \in 1..Len(rep) |->
        [monthStr |-> rep[k].monthStr,
         newCapital |-> rep[k].newCapital,
         returnedCapital |-> rep[k].returnedCapital,
         interestExpected |-> rep[k].interestExpected,
         interestActual |-> rep[k].interestActual]]

IndexPermutations(n) == {f \in [1..n -> 1..n] : \A i, j \in 1..n : f[i] = f[j] => i = j}

\* C10: the report of any permutation of the investments has the same month
\* keys and the same four totals for each month.
C10_OrderIndependent ==
    report # Null =>
        \A f \in IndexPermutations(Len(reportInput)) :
            Totals(getMonthlyReport([k \in 1..Len(reportInput) |-> reportInput[f[k]]]))
                = Totals(report[1])

\* two different investments start in the same month, and the months of the
\* report were not created in calendar order
C10_Witness ==
    /\ report # Null
    /\ \E i, j \in 1..Len(reportInput) :
           /\ reportInput[i] # reportInput[j]
           /\ MonthKey(reportInput[i].startDate) = MonthKey(reportInput[j].startDate)
    /\ ReportFold(<<>>, reportInput, 1) # report[1]

\* the investment of the input that carries id (the input's records with one
\* id are copies of one record)
Owner(id) == reportInput[CHOOSE k \in 1..Len(reportInput) : reportInput[k].id = id]

\* C11: in every month interestActual is the sum of the amounts of the
\* month's detail rows whose period is paid in the owning investment's
\* paymentHistory, so 0 <= interestActual <= interestExpected; and every
\* period 1..duration of every investment has exactly one detail row, listed
\* in the month of its due date.
C11_ActualIsPaidRows ==
    report # Null =>
        LET rep == report[1]
            RowsOf(m) == rep[m].interestDetails
            AllRows == {<<m, j>> : m \in 1..Len(rep), j \in 1..MaxReport * 3}
            Rows == {x \in AllRows : x[2] <= Len(RowsOf(x[1]))}
            Row(x) == RowsOf(x[1])[x[2]]
        IN  /\ \A m \in 1..Len(rep) :
                   /\ rep[m].interestActual =
                          SumSeq([j \in 1..Len(RowsOf(m)) |->
                                     IF IsPaid(Owner(RowsOf(m)[j].invId), RowsOf(m)[j].period)
                                     THEN RowsOf(m)[j].amount ELSE 0])
                   /\ 0 <= rep[m].interestActual
                   /\ rep[m].interestActual <= rep[m].interestExpected
            /\ \A x \in Rows :
                   /\ Row(x).dueDate =
                          getPeriodDueDate(Owner(Row(x).invId).startDate, Row(x).period)
                   /\ MonthKey(Row(x).dueDate) = rep[x[1]].monthStr
            /\ \A k \in 1..Len(reportInput) : \A i \in 1..reportInput[k].duration :
                   Cardinality({x \in Rows : /\ Row(x).invId = reportInput[k].id
                                             /\ Row(x).period = i})
                     = Cardinality({n \in 1..Len(reportInput) : reportInput[n] = reportInput[k]})
            /\ Cardinality(Rows)
                   = SumSeq([k \in 1..Len(reportInput) |-> reportInput[k].duration])

\* a month lists a paid and an unpaid period, and a payment record that is
\* present but not paid
C11_Witness ==
    /\ report # Null
    /\ \E m \in 1..Len(report[1]) :
           /\ 0 < report[1][m].interestActual
           /\ report[1][m].interestActual < report[1][m].interestExpected
    /\ \E k \in 1..Len(reportInput) : \E i \in DOMAIN reportInput[k].paymentHistory :
           ~reportInput[k].paymentHistory[i].isPaid

\* C12: every investment's amount is added once to newCapital of the month
\* of its startDate and once to returnedCapital of the month of its endDate;
\* both columns add up to the sum of the investment amounts.
C12_CapitalOncePerInvestment ==
    report # Null =>
        LET rep == report[1]
            AmountsWhere(Keep(_)) ==
                SumSeq([k \in 1..Len(reportInput) |->
                           IF Keep(reportInput[k]) THEN reportInput[k].amount ELSE 0])
            EveryOne(inv) == TRUE
        IN  /\ \A m \in 1..Len(rep) :
                   LET StartsHere(inv) == MonthKey(inv.startDate) = rep[m].monthStr
                       EndsHere(inv) == MonthKey(inv.endDate) = rep[m].monthStr
                   IN  /\ rep[m].newCapital = AmountsWhere(StartsHere)
                       /\ rep[m].returnedCapital = AmountsWhere(EndsHere)
            /\ SumSeq([m \in 1..Len(rep) |-> rep[m].newCapital]) = AmountsWhere(EveryOne)
            /\ SumSeq([m \in 1..Len(rep) |-> rep[m].returnedCapital]) = AmountsWhere(EveryOne)

\* two investments are returned in one month, which is not the month either
\* of them started in
C12_Witness ==
    /\ report # Null
    /\ \E i, j \in 1..Len(reportInput) :
           /\ reportInput[i].id # reportInput[j].id
           /\ MonthKey(reportInput[i].endDate) = MonthKey(reportInput[j].endDate)
           /\ MonthKey(reportInput[i].startDate) # MonthKey(reportInput[i].endDate)
           /\ MonthKey(reportInput[j].startDate) # MonthKey(reportInput[j].endDate)

-----------------------------------------------------------------------------
(* Invariants of the collection *)

FundersSum(inv) == SumSeq([j \in 1..Len(inv.funders) |-> inv.funders[j].amount])

\* C13: every investment of the collection that has funders has amount equal
\* to the sum of its funders' amounts.
C13_AmountIsFundersSum ==
    \A k \in 1..Len(investments) :
        investments[k].funders # <<>> => investments[k].amount = FundersSum(investments[k])

\* C14: every key of every investment's paymentHistory lies in 1..duration.
C14_HistoryKeysWithinDuration ==
    \A k \in 1..Len(investments) :
        DOMAIN investments[k].paymentHistory \subseteq 1..investments[k].duration

\* C15: every investment's endDate equals calculateEndDate(startDate, duration).
C15_EndDateFromStartAndDuration ==
    \A k \in 1..Len(investments) :
        investments[k].endDate
            = calculateEndDate(investments[k].startDate, investments[k].duration)

-----------------------------------------------------------------------------
(* Properties of the date utilities (checked under SpecCalendar) *)

\* the date n calendar months after d, the day clamped to the target month
ClampedAddMonths(d, n) ==
    LET idx == d[1] * 12 + (d[2] - 1) + n
        ty == idx \div 12
        tm == (idx % 12) + 1
        dim == DaysInMonth(ty, tm)
    IN  <<ty, tm, IF d[3] <= dim THEN d[3] ELSE dim>>

\* C16: calculateEndDate(d, n) is the date n calendar months after d with the
\* day clamped to the length of the target month, and calculateEndDate(d, 0) = d.
C16_EndDateClamped ==
    (callArgs # Null /\ callArgs.fn = "calculateEndDate" /\ callResult # Null) =>
        /\ callResult[1] = ClampedAddMonths(callArgs.startDate, callArgs.months)
        /\ callArgs.months = 0 => callResult[1] = callArgs.startDate

MonthIndex(d) == d[1] * 12 + (d[2] - 1)

\* C17: the due dates of the periods 1..n are n dates, strictly increasing,
\* one in each of the n calendar months that follow the start month, and the
\* last one is the end date.
C17_OneDueDatePerMonth ==
    (callArgs # Null /\ callArgs.fn = "getPeriodDueDate" /\ callResult # Null) =>
        LET due == callResult[1]
            n == callArgs.duration
        IN  /\ Len(due) = n
            /\ \A i \in 1..(n - 1) : DateLess(due[i], due[i + 1])
            /\ \A i \in 1..n : MonthIndex(due[i]) = MonthIndex(callArgs.startDate) + i
            /\ due[n] = calculateEndDate(callArgs.startDate, n)

\* C18: for every valid ISO date d of a year from 1912 on,
\* rocInputToISO(isoToROCInput(d)) = d.
C18_RocRoundTrip ==
    (callArgs # Null /\ callArgs.fn = "isoToROCInput" /\ callResult # Null) =>
        (callArgs.isoDate[1] >= 1912 =>
            rocInputToISO(callResult[1]) = Some(callArgs.isoDate))

\* the digits of an input and the three numbers they spell: the last two
\* digits the day, the two before the month, the rest the era year
DigitsOf(str) == SelectSeq(str, IsDigit)
EraOf(digits) == ParseInt(SubSeq(digits, 1, Len(digits) - 4))
MonthOf(digits) == ParseInt(SubSeq(digits, Len(digits) - 3, Len(digits) - 2))
DayOf(digits) == ParseInt(SubSeq(digits, Len(digits) - 1, Len(digits)))

\* C19: rocInputToISO returns null when the digits of the input are not 6 or
\* 7, when the month is outside 1..12 or when the day is not a day of that
\* month and year; for every other input it returns the date whose year is
\* the era year plus 1911.
C19_RocInputAcceptedOrNull ==
    (callArgs # Null /\ callArgs.fn = "rocInputToISO" /\ callResult # Null) =>
        LET digits == DigitsOf(callArgs.rocInput)
            rejected ==
                \/ Len(digits) \notin {6, 7}
                \/ MonthOf(digits) \notin 1..12
                \/ DayOf(digits) \notin
                       1..DaysInMonth(EraOf(digits) + 1911, MonthOf(digits))
        IN  IF rejected THEN callResult[1] = Null
            ELSE callResult[1] =
                     Some(<<EraOf(digits) + 1911, MonthOf(digits), DayOf(digits)>>)

\* a seven-digit input with a month of the year is refused for its day
\* (29 February of a year that is not a leap year)
C19_Witness ==
    /\ callArgs # Null /\ callArgs.fn = "rocInputToISO"
    /\ callResult = Some(Null)
    /\ Len(DigitsOf(callArgs.rocInput)) = 7
    /\ MonthOf(DigitsOf(callArgs.rocInput)) = 2
    /\ DayOf(DigitsOf(callArgs.rocInput)) = 29

-----------------------------------------------------------------------------
(* Properties of the income figures (checked under SpecForm) *)

\* the sum of the per-investment rounded monthly interest of a list
RowIncome(list) ==
    SumSeq([k \in 1..Len(list) |-> MonthlyInterest(list[k].amount, list[k].rate)])

\* C20: the total monthly income of the stats card and the income of every
\* source group header, as displayed, equal the sum of the rounded monthly
\* interest round(amount * rate / 100) of the investments they cover.
C20_IncomeTotalsAreRowSums ==
    LET IsCounted(i) == ~checkIsHistory(i) /\ i.status = "Active"
    IN  /\ formatCurrency(totalMonthlyIncome(investments))
               = RowIncome(SelectSeq(investments, IsCounted))
        /\ \A viewMode \in ViewModes, source \in Sources :
               LET items == GroupItems(filteredInvestments(investments, viewMode, "All"),
                                       source)
               IN  formatCurrency(totalIncome(items)) = RowIncome(items)

-----------------------------------------------------------------------------
(* Properties of calculatePeriodDiff (checked under SpecCalendar) *)

\* the whole months elapsed from start to today: a month counts once today's
\* day of the month has reached the start's; none for a start in the future
WholeMonthsElapsed(start, today) ==
    LET diff == MonthIndex(today) - MonthIndex(start)
        whole == IF today[3] < start[3] THEN diff - 1 ELSE diff
    IN  IF whole < 0 THEN 0 ELSE whole

\* C21: calculatePeriodDiff(start) is 1 + the number of whole months elapsed
\* between start and today, and never less than 1.
C21_PeriodIsWholeMonthsPlusOne ==
    (callArgs # Null /\ callArgs.fn = "calculatePeriodDiff" /\ callResult # Null) =>
        /\ callResult[1] = 1 + WholeMonthsElapsed(callArgs.startDate, callArgs.now)
        /\ callResult[1] >= 1

-----------------------------------------------------------------------------
(* Properties of the form submit (handleSubmit -> handleAdd) *)

\* C22: submitting a new record appends exactly one record with order =
\* (maximum existing order, or 0) + 1 and leaves the other records unchanged;
\* submitting an edit replaces one record in place, keeping its id, position
\* and order, and leaves the size and all other records unchanged.
C22_SubmitFrame ==
    /\ lastOp = "submitNew" =>
           /\ Len(investments) = Len(prevInvestments) + 1
           /\ SubSeq(investments, 1, Len(prevInvestments)) = prevInvestments
           /\ investments[Len(investments)].order = MaxOrderOf(prevInvestments) + 1
    /\ lastOp = "submitEdit" =>
           /\ Len(investments) = Len(prevInvestments)
           /\ \E k \in 1..Len(investments) :
                  /\ investments[k].id = prevInvestments[k].id
                  /\ investments[k].order = prevInvestments[k].order
                  /\ \A j \in 1..Len(investments) :
                         j # k => investments[j] = prevInvestments[j]

-----------------------------------------------------------------------------
(* Properties of renew and copy followed by a submit *)

\* C23: renewing a record and submitting the form appends a record whose id
\* differs from every id held before, whose paymentHistory is empty and whose
\* status is Active, and leaves the renewed record unchanged; copying a record
\* and submitting appends a record whose id and whose funders' ids are all
\* newly generated, and leaves the copied record unchanged.
C23_RenewAndCopyAppendFresh ==
    (lastOp \in {"submitNew", "submitEdit"} /\ formOrigin \in {"renew", "copy"}) =>
        LET new == investments[Len(investments)]
            held == Ids(prevInvestments) \cup FunderIds(prevInvestments)
        IN  /\ Len(investments) = Len(prevInvestments) + 1
            /\ SubSeq(investments, 1, Len(prevInvestments)) = prevInvestments
            /\ new.id \notin held
            /\ formOrigin = "renew" =>
                   /\ new.paymentHistory = EmptyHistory
                   /\ new.status = "Active"
            /\ formOrigin = "copy" =>
                   \A j \in 1..Len(new.funders) :
                       /\ new.funders[j].id \notin held \cup {new.id}
                       /\ \A i \in 1..Len(new.funders) :
                              i # j => new.funders[i].id # new.funders[j].id

\* a renewal of a record that had payments recorded or was not Active
C23_WitnessRenew ==
    /\ lastOp = "submitNew"
    /\ formOrigin = "renew"
    /\ \E k \in 1..Len(prevInvestments) :
           /\ prevInvestments[k].paymentHistory # EmptyHistory
           /\ prevInvestments[k].source = investments[Len(investments)].source
           /\ prevInvestments[k].amount = investments[Len(investments)].amount

\* a copy of a record that has funders
C23_WitnessCopy ==
    /\ lastOp = "submitNew"
    /\ formOrigin = "copy"
    /\ investments[Len(investments)].funders # <<>>

-----------------------------------------------------------------------------
(* Properties of handleUpdatePayment (checked under SpecPayments) *)

\* the paid date stored for period k, NoDate when the period has no record
StoredPaidDate(inv, k) ==
    IF k \in DOMAIN inv.paymentHistory THEN inv.paymentHistory[k].paidDate ELSE NoDate

\* what the claim asks of one handleUpdatePayment(id, k, data) step
PaymentUpdatePost(id, k, data) ==
    /\ Len(investments') = Len(investments)
    /\ \A j \in 1..Len(investments) :
           LET old == investments[j]
               new == investments'[j]
               supplied == "paidDate" \in DOMAIN data
               setsPaid == "isPaid" \in DOMAIN data /\ data.isPaid
           IN  IF old.id # id
               THEN new = old
               ELSE /\ [new EXCEPT !.paymentHistory = old.paymentHistory] = old
                    /\ DOMAIN new.paymentHistory = DOMAIN old.paymentHistory \cup {k}
                    /\ \A p \in DOMAIN old.paymentHistory \ {k} :
                           new.paymentHistory[p] = old.paymentHistory[p]
                    /\ (setsPaid /\ StoredPaidDate(old, k) = NoDate /\ ~supplied) =>
                           StoredPaidDate(new, k) = Today
                    /\ (StoredPaidDate(old, k) # NoDate /\ ~supplied) =>
                           StoredPaidDate(new, k) = StoredPaidDate(old, k)

\* C24: handleUpdatePayment(id, k, data) stores paidDate = today when data
\* sets isPaid to true and neither the existing record of period k nor data
\* carries a paidDate; a stored paidDate is replaced only if data supplies
\* one; only period k of investment id changes.
C24_PaymentUpdateFrame ==
    [][\A id \in Ids(investments), k \in BookPeriods, data \in PaymentData :
           handleUpdatePayment(id, k, data) => PaymentUpdatePost(id, k, data)]_vars

\* a period that had a paid date other than today has just been marked paid
C24_Witness ==
    /\ lastOp = "payment"
    /\ \E j \in 1..Len(investments), k \in BookPeriods :
           /\ k \in DOMAIN investments[j].paymentHistory
           /\ k \in DOMAIN prevInvestments[j].paymentHistory
           /\ investments[j].paymentHistory[k].isPaid
           /\ ~prevInvestments[j].paymentHistory[k].isPaid
           /\ StoredPaidDate(prevInvestments[j], k) \notin {NoDate, Today}

-----------------------------------------------------------------------------
(* Properties of handleBulkPay (checked under SpecPayments) *)

\* the periods of inv whose due date (start + i months) falls in month M
PeriodsDueIn(inv, M) ==
    {i \in 1..inv.duration : MonthKey(SetMonthPlus(inv.startDate, i)) = M}

\* the ledger item of month M in the report of invs
LedgerItem(invs, M) == MonthRow(getMonthlyReport(invs), M)

\* what the claim asks of the collection invs left by handleBulkPay(M)
BulkPayComplete(invs, M) ==
    /\ \A k \in 1..Len(invs) : \A i \in PeriodsDueIn(invs[k], M) : IsPaid(invs[k], i)
    /\ LedgerItem(invs, M).interestActual = LedgerItem(invs, M).interestExpected

\* C25: after handleBulkPay(M) every period of every investment whose due
\* date falls in month M, the first and the last day of M included, is marked
\* paid, and the ledger item of M has interestActual = interestExpected.
C25_BulkPayCoversMonth ==
    [][\A M \in BookMonths : handleBulkPay(M) => BulkPayComplete(investments', M)]_vars

\* the record handleBulkPay writes for a period it pays
BulkMarker == [isPaid |-> TRUE, paidDate |-> Today, note |-> "bulk"]

\* what the claim asks of one handleBulkPay(M) step from old to new
BulkPayFrame(old, new, M) ==
    /\ Len(new) = Len(old)
    /\ \A k \in 1..Len(old) :
           /\ [new[k] EXCEPT !.paymentHistory = old[k].paymentHistory] = old[k]
           /\ DOMAIN old[k].paymentHistory \subseteq DOMAIN new[k].paymentHistory
           /\ \A i \in DOMAIN new[k].paymentHistory :
                  \/ /\ i \in DOMAIN old[k].paymentHistory
                     /\ new[k].paymentHistory[i] = old[k].paymentHistory[i]
                  \/ /\ ~IsPaid(old[k], i)
                     /\ i \in PeriodsDueIn(old[k], M)
                     /\ new[k].paymentHistory[i] = BulkMarker

\* C28: handleBulkPay(M) changes only periods that were unpaid and due in M:
\* a paid period keeps its paidDate and note, periods due in other months and
\* investments with no period due in M are unchanged, each newly paid period
\* gets paidDate = today and the marker note, and a second handleBulkPay(M)
\* changes nothing.
C28_BulkPayFrameAndIdempotent ==
    [][\A M \in BookMonths :
           handleBulkPay(M) =>
               /\ BulkPayFrame(investments, investments', M)
               /\ BulkPayResult(investments', M) = investments']_vars

\* a bulk pay that replaced the note of an unpaid period while a paid period
\* with a note of its own was left as it was
C28_Witness ==
    /\ lastOp = "bulkPay"
    /\ \E k \in 1..Len(investments) : \E i \in DOMAIN prevInvestments[k].paymentHistory :
           /\ ~IsPaid(prevInvestments[k], i)
           /\ prevInvestments[k].paymentHistory[i].note = "memo"
           /\ investments[k].paymentHistory[i] = BulkMarker
    /\ \E k \in 1..Len(investments) : \E i \in DOMAIN prevInvestments[k].paymentHistory :
           /\ IsPaid(prevInvestments[k], i)
           /\ prevInvestments[k].paymentHistory[i].note = "memo"
           /\ investments[k].paymentHistory[i] = prevInvestments[k].paymentHistory[i]

-----------------------------------------------------------------------------
(* Properties of the load effect (checked under SpecLoad) *)

\* the elements of the stored array, <<>> when the snapshot is not an array
StoredArray(stored) ==
    IF stored.parse = "ok" /\ stored.value.type = "array" THEN stored.value.items ELSE <<>>

\* the settings part of the claim
LoadedSettingsAsClaimed ==
    LET ss == callArgs.storedSettings
    IN  ss # Null =>
            /\ ss[1].parse = "error" => settings = DEFAULT_SETTINGS
            /\ (/\ ss[1].parse = "ok" /\ ss[1].value.type = "object"
                /\ ss[1].value.rateColorMap[1] \in {"absent", "null"}) =>
                   settings.rateColorMap = EmptyMapping

\* the fail-soft part of the claim
LoadedEmptyAsClaimed ==
    LET si == callArgs.storedInv
    IN  (si # Null /\ (si[1].parse = "error" \/ si[1].value.type # "array")) =>
            investments = <<>>

\* C26 as stated: every element of the stored array without a numeric order
\* gets its index as order and elements with a numeric order keep it; an
\* absent or null rateColorMap becomes an empty mapping; a snapshot that does
\* not parse or is not an array gives an empty collection, unparseable
\* settings give the defaults, and the effect always completes.
C26_LoadMigratesEveryElement ==
    /\ (callArgs # Null /\ callArgs.fn = "load" /\ callResult = Null) =>
           ENABLED LoadInitialData
    /\ (callArgs # Null /\ callArgs.fn = "load" /\ callResult # Null) =>
           /\ LoadedSettingsAsClaimed
           /\ LoadedEmptyAsClaimed
           /\ callArgs.storedInv # Null =>
                  LET items == StoredArray(callArgs.storedInv[1])
                  IN  /\ Len(investments) = Len(items)
                      /\ \A k \in 1..Len(items) :
                             investments[k].order =
                                 IF items[k].type = "object" /\ items[k].order[1] = "number"
                                 THEN items[k].order[2] ELSE k - 1

\* C26, amended: the migration applies when every element of the stored
\* array is an object; an array holding a null element gives an empty
\* collection, like a snapshot that does not parse or is not an array.
C26_LoadMigratesObjects ==
    /\ (callArgs # Null /\ callArgs.fn = "load" /\ callResult = Null) =>
           ENABLED LoadInitialData
    /\ (callArgs # Null /\ callArgs.fn = "load" /\ callResult # Null) =>
           /\ LoadedSettingsAsClaimed
           /\ LoadedEmptyAsClaimed
           /\ callArgs.storedInv # Null =>
                  LET items == StoredArray(callArgs.storedInv[1])
                  IN  IF \E k \in 1..Len(items) : items[k].type = "null"
                      THEN investments = <<>>
                      ELSE /\ Len(investments) = Len(items)
                           /\ \A k \in 1..Len(items) :
                                  /\ [investments[k] EXCEPT !.order = 0] = items[k].fields
                                  /\ investments[k].order =
                                         IF items[k].order[1] = "number"
                                         THEN items[k].order[2] ELSE k - 1

\* a stored array of two objects, the first with a numeric order other than
\* its index and the second without one, was loaded together with settings
\* whose rateColorMap is null
C26_Witness ==
    /\ callArgs # Null /\ callArgs.fn = "load" /\ callResult # Null
    /\ callArgs.storedInv # Null /\ callArgs.storedSettings # Null
    /\ LET items == StoredArray(callArgs.storedInv[1])
       IN  /\ Len(items) = 2
           /\ items[1].type = "object" /\ items[1].order = <<"number", 2>>
           /\ items[2].type = "object" /\ items[2].order[1] # "number"
           /\ investments[1].order = 2 /\ investments[2].order = 1
    /\ callArgs.storedSettings[1].parse = "ok"
    /\ callArgs.storedSettings[1].value.type = "object"
    /\ callArgs.storedSettings[1].value.rateColorMap = <<"null">>

-----------------------------------------------------------------------------
(* Properties of the row drag-reorder (checked under SpecReorder) *)

\* C27: after a row drag (handleDragEnd -> handleReorder), in any view mode
\* and with any source filter, the collection holds the investment ids it
\* held before, and only the order of records of one source group (the
\* dragged row's) may differ.
C27_ReorderKeepsRecords ==
    lastOp = "reorder" =>
        /\ Len(investments) = Len(prevInvestments)
        /\ Ids(investments) = Ids(prevInvestments)
        /\ \E src \in Sources :
               \A k \in 1..Len(prevInvestments) :
                   LET old == prevInvestments[k]
                       new == CHOOSE r \in {investments[j] : j \in 1..Len(investments)} :
                                  r.id = old.id
                   IN  /\ [new EXCEPT !.order = old.order] = old
                       /\ new.order # old.order => old.source = src

-----------------------------------------------------------------------------
(* Properties of an import that is not confirmed (checked under Spec) *)

\* handleImportFile reads some JSON file
ReadsJsonFile ==
    \E cands \in SeqsUpTo(JsonCandidates, MaxIncoming), withSettings \in BOOLEAN :
        ImportJsonFile(cands, withSettings)

\* C29: an import that is not confirmed changes nothing: reading a file (with
\* or without a settings object, with or without candidates) and closing the
\* preview without confirming leave the investment collection and the
\* settings as they were before the file was read.
C29_UnconfirmedImportChangesNothing ==
    [][(ReadsJsonFile \/ CloseImportPreview) => UNCHANGED <<investments, settings>>]_vars

-----------------------------------------------------------------------------
(* Collected interest of the stats card against the monthly report
   (checked under SpecLedger) *)

\* C30: in every reachable state the cumulative collected interest of the
\* stats card equals the sum of interestActual over all months of
\* getMonthlyReport for the same collection.
C30_CollectedInterestMatchesReport ==
    LET rep == getMonthlyReport(investments)
    IN  totalCollectedInterest(investments) =
            SumSeq([k \in 1..Len(rep) |-> rep[k].interestActual])

====
